---- MODULE Spec2Model ----
(***************************************************************************)
(* The enhanced chat route (POST handler with conversation sessions), its  *)
(* context assembler getPropertyContext, and the conversation and property *)
(* services it calls.  One turn is one invocation of POST; every await of  *)
(* the handler is a point where another turn may run.                      *)
(*                                                                         *)
(* Strings are tuples of one-character strings, so that length, trimming,  *)
(* lower-casing and substring search are computed as the code computes     *)
(* them.  A JSON value is a record [type, chars, num].                     *)
(***************************************************************************)
EXTENDS Integers, Sequences, FiniteSets, TLC

\* ------------------------------------------------------------------ bounds
\* number of completed turns the pre-existing session may already hold
MaxPastTurns == 6
\* number of records the property backend may match for a query
MaxMatches == 4

\* ------------------------------------------------------- program constants
\* historyData.messages.slice(-10)
HistoryWindow == 10
\* &limit=3 of the property search request
SearchLimit == 3
\* message.length > 50 ? message.substring(0, 50) + '...'
TitleMax == 50

\* ----------------------------------------------------------------- strings
None == "<none>"

Min(a, b) == IF a < b THEN a ELSE b

Whitespace == {" ", "\t", "\n"}

Upper == <<"A","B","C","D","E","F","G","H","I","J","K","L","M",
           "N","O","P","Q","R","S","T","U","V","W","X","Y","Z">>
LowerOf == <<"a","b","c","d","e","f","g","h","i","j","k","l","m",
             "n","o","p","q","r","s","t","u","v","w","x","y","z">>

\* String.prototype.toLowerCase on one character
LowerChar(c) ==
  IF \E i \in 1..Len(Upper) : Upper[i] = c
  THEN LowerOf[CHOOSE i \in 1..Len(Upper) : Upper[i] = c]
  ELSE c

toLowerCase(s) == [i \in 1..Len(s) |-> LowerChar(s[i])]

\* String.prototype.includes
includes(s, k) ==
  \E i \in 0..(Len(s) - Len(k)) : SubSeq(s, i + 1, i + Len(k)) = k

\* String.prototype.substring(0, n)
substring(s, n) == SubSeq(s, 1, Min(n, Len(s)))

RECURSIVE trimStart(_)
trimStart(s) ==
  IF s # <<>> /\ Head(s) \in Whitespace THEN trimStart(Tail(s)) ELSE s

RECURSIVE trimEnd(_)
trimEnd(s) ==
  IF s # <<>> /\ s[Len(s)] \in Whitespace
  THEN trimEnd(SubSeq(s, 1, Len(s) - 1)) ELSE s

\* String.prototype.trim
trim(s) == trimEnd(trimStart(s))

\* ------------------------------------------------------------- JSON values
Undefined == [type |-> "undefined", chars |-> <<>>, num |-> 0]
Str(s) == [type |-> "string", chars |-> s, num |-> 0]
Num(n) == [type |-> "number", chars |-> <<>>, num |-> n]

\* JavaScript truthiness of a JSON value
Truthy(v) ==
  CASE v.type = "undefined" -> FALSE
    [] v.type = "string" -> v.chars # <<>>
    [] v.type = "number" -> v.num # 0
    [] OTHER -> TRUE

\* -------------------------------------------------------- context assembly
propertyKeywords ==
    << <<"p","r","o","p","e","r","t","y">>,
       <<"p","r","o","p","e","r","t","i","e","s">>,
       <<"r","e","n","t">>,
       <<"r","e","n","t","a","l">>,
       <<"s","q","u","a","r","e"," ","f","e","e","t">>,
       <<"s","f">>,
       <<"s","q","f","t">>,
       <<"f","l","o","o","r">>,
       <<"s","u","i","t","e">>,
       <<"b","r","o","k","e","r">>,
       <<"a","s","s","o","c","i","a","t","e">>,
       <<"a","n","n","u","a","l"," ","r","e","n","t">>,
       <<"m","o","n","t","h","l","y"," ","r","e","n","t">>,
       <<"b","u","i","l","d","i","n","g">>,
       <<"a","d","d","r","e","s","s">>,
       <<"b","r","o","a","d","w","a","y">>,
       <<"a","v","e","n","u","e">>,
       <<"s","t","r","e","e","t">>,
       <<"l","e","a","s","e">>,
       <<"m","a","r","k","e","t">> >>

\* every query taken for a property query
isPropertyQueryAlways(query) == TRUE

\* propertyKeywords.some(k => query.toLowerCase().includes(k.toLowerCase()))
isPropertyQuery(query) ==
  \E i \in 1..Len(propertyKeywords) :
    includes(toLowerCase(query), toLowerCase(propertyKeywords[i]))

\* A piece of prompt text is one string naming it; a prompt is the tuple of
\* its pieces in order, so concatenation is \o.

\* knowledgeBase.map(item => item.content).join("\n\n"): the four entries
\* with a blank line between consecutive ones
knowledgeBase == <<"kb1", "kb2", "kb3", "kb4">>

RECURSIVE join(_, _)
join(items, sep) ==
  IF items = <<>> THEN <<>>
  ELSE IF Len(items) = 1 THEN <<items[1]>>
  ELSE <<items[1], sep>> \o join(Tail(items), sep)

StaticContext == join(knowledgeBase, "\n\n")

\* the numbered line `${index + 1}. ${prop.formatted_info}\n`
RecordLine == <<"1. info", "2. info", "3. info">>

RECURSIVE RecordLines(_)
RecordLines(n) ==
  IF n = 0 THEN <<>> ELSE RecordLines(n - 1) \o <<RecordLine[n]>>

\* the overview without its last figure
MarketOverviewNoSize ==
  <<"MARKET OVERVIEW:", "Total Properties", "Average Annual Rent">>

\* "\nMARKET OVERVIEW:\n" and its three figures
MarketOverview ==
  <<"MARKET OVERVIEW:", "Total Properties", "Average Annual Rent",
    "Average Size">>

\* the records kept whatever the market-summary call does
DynamicSectionKept(n, market) ==
  <<"RELEVANT PROPERTY DATA:">> \o RecordLines(n)
  \o (IF market = "ok" THEN MarketOverview ELSE <<>>)
  \o <<"Use this specific property data">>

\* a non-success status of the market summary treated like a thrown error
DynamicSectionDropped(n, market) ==
  IF market # "ok" THEN <<>>
  ELSE <<"RELEVANT PROPERTY DATA:">> \o RecordLines(n)
       \o MarketOverview \o <<"Use this specific property data">>

\* the dynamic section built when the search returned n >= 1 results;
\* market is the outcome of the market-summary call
DynamicSection(n, market) ==
  IF market \in {"throw", "malformed"} THEN <<>>
  ELSE <<"RELEVANT PROPERTY DATA:">> \o RecordLines(n)
       \o (IF market = "ok" THEN MarketOverview ELSE <<>>)
       \o <<"Use this specific property data">>

\* ---------------------------------------------------------------- requests
Turns == {1, 2}

ExistingId == "s1"
UnknownId == "s?"
\* ids the session service hands out, in order
FreshIds == <<"c1", "c2", "c3">>
SessionIds == {ExistingId} \cup {FreshIds[i] : i \in 1..Len(FreshIds)}

Hi == <<"h", "i">>
RentQuery == <<"R", "e", "n", "t", "?">>
Blank == <<" ", "\t">>
\* "ren t": no keyword of the list is a substring of it
NearMiss == <<"r", "e", "n", " ", "t">>
\* "my SUITE": a keyword in upper case, not at the start
SuiteQuery == <<"m", "y", " ", "S", "U", "I", "T", "E">>
\* a text of n characters with no keyword in it
LongText(n) == [i \in 1..n |-> IF i % 10 = 0 THEN " " ELSE "x"]

Msg(role, content) == [role |-> role, content |-> content]

Body(parses, isArray, messages, message) ==
  [parses |-> parses, isArray |-> isArray, messages |-> messages,
   message |-> message]

\* request bodies, listed: the {message} shape, the {messages:[...]} shape,
\* an object with neither, and a body req.json() cannot parse
MessageValues ==
  <<Undefined, Str(<<>>), Str(Blank), Num(0), Num(7),
    Str(Hi), Str(RentQuery), Str(NearMiss), Str(SuiteQuery),
    Str(LongText(TitleMax)), Str(LongText(TitleMax + 1)),
    Str(LongText(TitleMax + 10))>>

MessageBodies ==
  [i \in 1..Len(MessageValues) |->
     Body(TRUE, FALSE, <<>>, MessageValues[i])]

ArrayValues ==
  << <<>>,
     <<Msg("assistant", Str(Hi))>>,
     <<Msg("user", Undefined)>>,
     <<Msg("user", Str(<<>>))>>,
     <<Msg("user", Str(Blank))>>,
     <<Msg("user", Num(7))>>,
     <<Msg("user", Str(Hi))>>,
     <<Msg("user", Str(Hi)), Msg("assistant", Str(Hi)),
       Msg("user", Str(RentQuery))>> >>

ArrayBodies ==
  [i \in 1..Len(ArrayValues) |->
     Body(TRUE, TRUE, ArrayValues[i], Undefined)]

Bodies == MessageBodies \o ArrayBodies
            \o <<Body(FALSE, FALSE, <<>>, Undefined)>>

\* body.userId and body.userEmail: absent, empty, or a value
Owners == << <<None, None>>, <<"u1", "">>, <<None, "e1">> >>

\* the validation without its trim() test
ValidMessageNoTrim(v) == Truthy(v) /\ v.type = "string"

\* if (!message || typeof message !== 'string' || message.trim() === '')
ValidMessage(v) ==
  Truthy(v) /\ v.type = "string" /\ trim(v.chars) # <<>>

\* the {messages} shape read from its first element
ExtractMessageFirst(body) ==
  IF body.isArray
  THEN LET n == Len(body.messages) IN
       IF n > 0 /\ body.messages[n].role = "user"
       THEN [ok |-> TRUE, message |-> body.messages[1].content]
       ELSE [ok |-> FALSE, message |-> Undefined]
  ELSE IF Truthy(body.message)
       THEN [ok |-> TRUE, message |-> body.message]
       ELSE [ok |-> FALSE, message |-> Undefined]

\* the two input shapes: [ok, message]; ok = FALSE is the 400 return
ExtractMessage(body) ==
  IF body.isArray
  THEN LET n == Len(body.messages) IN
       IF n > 0 /\ body.messages[n].role = "user"
       THEN [ok |-> TRUE, message |-> body.messages[n].content]
       ELSE [ok |-> FALSE, message |-> Undefined]
  ELSE IF Truthy(body.message)
       THEN [ok |-> TRUE, message |-> body.message]
       ELSE [ok |-> FALSE, message |-> Undefined]

\* the status the parsing and validation prefix of POST ends with; 0 means
\* the handler goes on to resolve the session
ParseStatus(body) ==
  IF ~body.parses THEN 500
  ELSE IF ~ExtractMessage(body).ok THEN 400
  ELSE IF ~ValidMessage(ExtractMessage(body).message) THEN 400
  ELSE 0

\* ------------------------------------------------------------------- state
VARIABLES
  pc,                   \* where each turn's handler stands
  req,                  \* the request of the turn: [body, sessionId,
                        \* userId, userEmail]
  message,              \* let message
  currentSessionId,     \* let currentSessionId
  conversationHistory,  \* let conversationHistory
  nResults,             \* searchData.results.length
  propertyContext,      \* const propertyContext
  sent,                 \* the messages array handed to streamText
  text,                 \* result.text of onFinish
  status,               \* status of the Response returned, 0 while none
  header,               \* the X-Session-Id header of the Response
  calls,                \* the external calls the turn has issued, in order
  outcome,              \* how each of those calls ended
  payload,              \* what each of those calls carried, in order
  exists,               \* session service: the sessions it holds
  title,                \* session service: title of each session
  store                 \* session service: messages of each session, in order

locals == <<req, message, currentSessionId, conversationHistory, nResults,
            propertyContext, sent, text, status, header>>
locals_but_status == <<req, message, currentSessionId, conversationHistory,
                       nResults, propertyContext, sent, text, header>>
service == <<exists, title, store>>

\* the conversations endpoint (app/api/conversations), one request
VARIABLES
  routePc,              \* where the route handler stands
  routeReq,             \* the request it received
  routeCalls,           \* the requests it sent to the backend, in order
  routeOutcome,         \* how the backend answered
  routeStatus           \* status of the response returned, 0 while none

route == <<routePc, routeReq, routeCalls, routeOutcome, routeStatus>>

\* the conversation hook useConversationChat (components/app-sidebar.tsx)
VARIABLES
  hookPc,               \* where each call of sendMessage stands
  hookLocal,            \* its locals: message, sessionId, assistantContent,
                        \* and the currentSessionId of its closure
  hookSessionId,        \* state currentSessionId
  hookMessages,         \* state messages: the messages displayed
  isLoading,            \* state isLoading
  hookError,            \* state error
  seen,                 \* the state captured by the callbacks of the last
                        \* render
  hookCalls,            \* the requests the hook has sent, in order
  hookOutcome           \* how the requests of each call were answered

hook == <<hookPc, hookLocal, hookSessionId, hookMessages, isLoading,
          hookError, seen, hookCalls, hookOutcome>>

\* the property list hook usePropertyData (hooks/use-dashboard-data) and the
\* properties endpoint it reads
VARIABLES
  propPc,               \* "mount", "fetching" (a fetchProperties is awaiting
                        \* its answer) or "idle"
  properties,           \* state properties: the ids of the records listed
  loading,              \* state loading
  hasMore,              \* state hasMore
  totalCount,           \* state totalCount
  propError,            \* state error
  propOffset,           \* the offset of the page being fetched
  backendSize           \* N: the number of properties the backend holds

props == <<propPc, properties, loading, hasMore, totalCount, propError,
           propOffset, backendSize>>

\* the basic chat handler (app/api/chat/route.ts)
VARIABLES
  basicPc,              \* "idle", "context", "model" or "done"
  basicReq,             \* the request body
  basicContext,         \* propertyContext
  basicEnd              \* how POST ended: "200" or "500", the status of
                        \* the Response returned, or "escaped" for an
                        \* exception that left the handler

basic == <<basicPc, basicReq, basicContext, basicEnd>>

\* the chat handler with its services
server == <<pc, locals, calls, outcome, payload, service>>

vars == <<server, route, hook, props, basic>>

Calls == {"create", "history", "appendUser", "search", "market", "model",
          "appendAsst"}

AllIds == SessionIds \cup {UnknownId}

Digit == <<"1", "2", "3", "4", "5", "6", "7", "8", "9">>

\* a persisted message; turn names the turn that appended it (past turns are
\* numbered below zero) and is not read by the handler
Stored(sender, content, metadata, turn) ==
  [sender |-> sender, content |-> content, metadata |-> metadata,
   turn |-> turn]

UserMeta == {"timestamp"}
AssistantMeta == {"model", "usage", "timestamp"}

ReplyText == <<"o", "k">>
ReplyTexts == {<<>>, ReplyText}

\* the history k completed turns leave behind
RECURSIVE PastHistory(_)
PastHistory(k) ==
  IF k = 0 THEN <<>>
  ELSE PastHistory(k - 1)
       \o <<Stored("user", <<"q", Digit[k]>>, UserMeta, 0 - k),
            Stored("assistant", <<"a", Digit[k]>>, AssistantMeta, 0 - k)>>

\* a request to the conversations endpoint: the operation, the query
\* parameters of the list, the session of the path, and the body
RouteRequest(op, userId, userEmail, limit, skip, sessionId, parses, name) ==
  [op |-> op, userId |-> userId, userEmail |-> userEmail, limit |-> limit,
   skip |-> skip, sessionId |-> sessionId, parses |-> parses,
   title |-> name]

\* no request received yet
RouteInit ==
  /\ routePc = "idle"
  /\ routeReq = RouteRequest("none", None, None, None, None, None, TRUE, None)
  /\ routeCalls = <<>>
  /\ routeOutcome = "none"
  /\ routeStatus = 0

\* the calls of sendMessage that the model follows
Sends == {1, 2}

\* the calls of switchToSession that the model follows
Switches == {3, 4}

Handlers == Sends \cup Switches

HookRequests == {"create", "chat", "history"}

\* useState(...): the hook mounted with the session id sid, or with none
HookInit(sid) ==
  /\ hookPc = [i \in Handlers |-> "idle"]
  /\ hookLocal = [i \in Handlers |->
                    [message |-> <<>>, sessionId |-> None, closure |-> None,
                     assistantContent |-> <<>>, started |-> FALSE]]
  /\ hookSessionId = sid
  /\ hookMessages = <<>>
  /\ isLoading = FALSE
  /\ hookError = None
  /\ seen = [currentSessionId |-> sid, isLoading |-> FALSE]
  /\ hookCalls = <<>>
  /\ hookOutcome = [i \in Handlers |-> [c \in HookRequests |-> "none"]]

\* useState(...): the list as mounted, in front of a backend of n properties
PropInit(n) ==
  /\ propPc = "mount"
  /\ properties = <<>>
  /\ loading = TRUE
  /\ hasMore = TRUE
  /\ totalCount = 0
  /\ propError = None
  /\ propOffset = 0
  /\ backendSize = n

\* no request to the basic chat endpoint yet
BasicInit ==
  /\ basicPc = "idle"
  /\ basicReq = Body(FALSE, FALSE, <<>>, Undefined)
  /\ basicContext = <<>>
  /\ basicEnd = None

ServerInit(pastTurns) ==
  /\ pc = [t \in Turns |-> "idle"]
  /\ req = [t \in Turns |-> [body |-> Body(FALSE, FALSE, <<>>, Undefined),
                             sessionId |-> None,
                             userId |-> None, userEmail |-> None]]
  /\ message = [t \in Turns |-> <<>>]
  /\ currentSessionId = [t \in Turns |-> None]
  /\ conversationHistory = [t \in Turns |-> <<>>]
  /\ nResults = [t \in Turns |-> 0]
  /\ propertyContext = [t \in Turns |-> <<>>]
  /\ sent = [t \in Turns |-> <<>>]
  /\ text = [t \in Turns |-> <<>>]
  /\ status = [t \in Turns |-> 0]
  /\ header = [t \in Turns |-> None]
  /\ calls = [t \in Turns |-> <<>>]
  /\ outcome = [t \in Turns |-> [c \in Calls |-> "none"]]
  /\ payload = [t \in Turns |-> <<>>]
  /\ exists = {ExistingId}
  /\ title = [s \in AllIds |-> <<>>]
  /\ \E k \in pastTurns :
       store = [s \in AllIds |-> IF s = ExistingId THEN PastHistory(k) ELSE <<>>]

\* no request to the conversations endpoint yet, the hook mounted without
\* a session id
InitWith(pastTurns) ==
  /\ ServerInit(pastTurns)
  /\ RouteInit
  /\ HookInit(None)
  /\ PropInit(0)
  /\ BasicInit

\* one pre-existing session that holds the messages of 0..MaxPastTurns turns
Init == InitWith(0..MaxPastTurns)

\* ------------------------------------------------------- pieces of the code
Max(a, b) == IF a > b THEN a ELSE b

\* the user append outside a try/catch of its own
SwallowedButAppend(block) ==
  block \in {"create", "history", "context", "appendAsst"}

\* the history fetch outside a try/catch of its own
SwallowedButHistory(block) ==
  block \in {"create", "appendUser", "context", "appendAsst"}

\* getPropertyContext without its try/catch
SwallowedButContext(block) ==
  block \in {"create", "history", "appendUser", "appendAsst"}

\* the blocks of POST and getPropertyContext that sit in a try/catch of their
\* own; an error thrown anywhere else reaches the outer catch of POST
Swallowed(block) ==
  block \in {"create", "history", "appendUser", "context", "appendAsst"}

\* the test message.length >= 50 in the place of message.length > 50
TitleOffByOne(m) ==
  IF Len(m) >= TitleMax THEN substring(m, TitleMax) \o <<".", ".", ".">> ELSE m

\* title: message.length > 50 ? message.substring(0, 50) + '...' : message
Title(m) ==
  IF Len(m) > TitleMax THEN substring(m, TitleMax) \o <<".", ".", ".">> ELSE m

\* slice(0, 10) in the place of slice(-10): the oldest ten
RecentHistoryOldest(msgs) ==
  LET recent == SubSeq(msgs, 1, Min(HistoryWindow, Len(msgs)))
  IN [i \in 1..Len(recent) |->
        Msg(IF recent[i].sender = "user" THEN "user" ELSE "assistant",
            recent[i].content)]

\* historyData.messages.slice(-10).map(msg => ({role: ..., content: ...}))
RecentHistory(msgs) ==
  LET n == Len(msgs)
      recent == SubSeq(msgs, Max(1, n - HistoryWindow + 1), n)
  IN [i \in 1..Len(recent) |->
        Msg(IF recent[i].sender = "user" THEN "user" ELSE "assistant",
            recent[i].content)]

\* the system message of the messages array
SystemMessage(context) ==
  Msg("system", <<"You are an AI assistant", "Context:">> \o context
                  \o <<"When discussing properties">>)

\* the new user message put before the history
BuildMessagesUserFirst(context, history, m) ==
  <<SystemMessage(context), Msg("user", m)>> \o history

\* const messages = [ system, ...conversationHistory, user ]
BuildMessages(context, history, m) ==
  <<SystemMessage(context)>> \o history \o <<Msg("user", m)>>

\* a session created also when the supplied id is unknown to the service
NeedsSessionUnknown(sid) == sid \notin exists

\* if (!currentSessionId) before the session creation
NeedsSession(sid) == sid = None

\* the test made on the session id of the request, not on the current one
HasSessionSupplied(sid) ==
  sid # None /\ \A i \in 1..Len(FreshIds) : sid # FreshIds[i]

\* the history fetch and the user append made without the test
HasSessionAlways(sid) == TRUE

\* if (currentSessionId) before the history fetch and the user append
HasSession(sid) == sid # None

\* onFinish without its test of result.text
ShouldPersistAnyText(sid, txt) == sid # None

\* onFinish: if (currentSessionId && result.text)
ShouldPersistAssistant(sid, txt) == sid # None /\ txt # <<>>

\* the header left empty
SessionHeaderEmpty(sid) == ""

\* 'X-Session-Id': currentSessionId || ''
SessionHeader(sid) == IF sid = None THEN "" ELSE sid

\* where the handler goes once the user message has been dealt with:
\* getPropertyContext returns "" at once unless the query is property-related
AfterUserMessage(m) == IF isPropertyQuery(m) THEN "search" ELSE "model"

\* the history fetch left out
AfterResolveNoHistory(sid, m) ==
  IF HasSession(sid) THEN "appendUser" ELSE AfterUserMessage(m)

\* where the handler goes once the session is resolved
AfterResolve(sid, m) ==
  IF HasSession(sid) THEN "history" ELSE AfterUserMessage(m)

Count(seq, x) == Cardinality({i \in 1..Len(seq) : seq[i] = x})

\* ------------------------------------------------- the conversation service
\* POST /sessions: the next unused id
NewSessionId == FreshIds[Cardinality(exists)]

\* GET /sessions/{id}/history answers 404 for a session it does not hold
ServiceHolds(sid) == sid \in exists

\* POST /sessions/{id}/messages appends at the end
Appended(sid, m) == [store EXCEPT ![sid] = Append(@, m)]

\* ----------------------------------------------------------------- actions
\* how a call to a service ends: a success status with the body expected,
\* another status, an error thrown by fetch, or a success status with a body
\* that cannot be read as expected
Outcomes == {"ok", "status", "throw", "malformed"}

\* the call, or the reading of its answer, throws: a network error, or a
\* success status with a body that is not what the code reads from it
Threw(o) == o \in {"throw", "malformed"}

\* the outcomes of a call whose answer the code does not read: a body that
\* cannot be read is then the same as a success
Unread(outcomes) == outcomes \ {"malformed"}

\* the handler of turn t moves on; it shares nothing with the other
\* endpoints or with the hook
Goto(t, p) ==
  /\ pc' = [pc EXCEPT ![t] = p]
  /\ UNCHANGED <<route, hook,
                 props, basic>>

\* userId || null, userEmail || null
OrNull(v) == IF v = "" THEN None ELSE v

\* the assistant append sent with the text of the user message
PayloadUserText(t, c) ==
  [session |-> IF c \in {"history", "appendUser", "appendAsst"}
               THEN currentSessionId[t] ELSE None,
   owner |-> IF c = "create"
             THEN <<OrNull(req[t].userId), OrNull(req[t].userEmail)>>
             ELSE <<None, None>>,
   content |-> IF c = "create" THEN Title(message[t])
               ELSE IF c \in {"appendUser", "search", "appendAsst"}
               THEN message[t]
               ELSE <<>>,
   messages |-> IF c = "model"
                THEN BuildMessages(StaticContext \o propertyContext[t],
                                   conversationHistory[t], message[t])
                ELSE <<>>]

\* what call c of turn t carries: the session of its URL, the owner and the
\* text of its JSON body, the messages handed to streamText
Payload(t, c) ==
  [session |-> IF c \in {"history", "appendUser", "appendAsst"}
               THEN currentSessionId[t] ELSE None,
   owner |-> IF c = "create"
             THEN <<OrNull(req[t].userId), OrNull(req[t].userEmail)>>
             ELSE <<None, None>>,
   content |-> IF c = "create" THEN Title(message[t])
               ELSE IF c \in {"appendUser", "search"} THEN message[t]
               ELSE IF c = "appendAsst" THEN text[t]
               ELSE <<>>,
   messages |-> IF c = "model"
                THEN BuildMessages(StaticContext \o propertyContext[t],
                                   conversationHistory[t], message[t])
                ELSE <<>>]

\* turn t issues call c, which ends as o
Issue(t, c, o) ==
  /\ calls' = [calls EXCEPT ![t] = Append(@, c)]
  /\ outcome' = [outcome EXCEPT ![t][c] = o]
  /\ payload' = [payload EXCEPT ![t] = Append(@, Payload(t, c))]

\* a call on a session the service does not hold is answered 404
OnSession(sid, o) == IF o = "ok" /\ ~ServiceHolds(sid) THEN "status" ELSE o

\* the outer catch answering with a client error
OuterCatchBadRequest(t) ==
  /\ Goto(t, "done")
  /\ status' = [status EXCEPT ![t] = 400]

\* the outer catch of POST: new Response('Internal Server Error', 500)
OuterCatch(t) ==
  /\ Goto(t, "done")
  /\ status' = [status EXCEPT ![t] = 500]

\* req.json(), the two input shapes and the validation of the message
Receive(t, bodies, owners) ==
  /\ pc[t] = "idle"
  /\ \E i \in 1..Len(bodies), j \in 1..Len(owners),
        sid \in {None, UnknownId} \cup exists :
     LET body == bodies[i] IN
       /\ req' = [req EXCEPT ![t] = [body |-> body, sessionId |-> sid,
                                     userId |-> owners[j][1],
                                     userEmail |-> owners[j][2]]]
       /\ IF ParseStatus(body) # 0
          THEN /\ status' = [status EXCEPT ![t] = ParseStatus(body)]
               /\ Goto(t, "done")
               /\ UNCHANGED <<message, currentSessionId>>
          ELSE /\ message' = [message EXCEPT
                                ![t] = ExtractMessage(body).message.chars]
               /\ currentSessionId' = [currentSessionId EXCEPT ![t] = sid]
               /\ Goto(t, IF NeedsSession(sid) THEN "create"
                          ELSE AfterResolve(sid,
                                 ExtractMessage(body).message.chars))
               /\ UNCHANGED status
  /\ UNCHANGED <<conversationHistory, nResults, propertyContext, sent, text,
                 header, calls, outcome, payload, service>>

\* fetch(`/api/conversations/sessions`, POST) and the reading of its answer
CreateSession(t, outcomes) ==
  /\ pc[t] = "create"
  /\ \E o \in outcomes :
       /\ Issue(t, "create", o)
       /\ IF o = "ok"
          THEN /\ exists' = exists \cup {NewSessionId}
               /\ title' = [title EXCEPT ![NewSessionId] = Title(message[t])]
               /\ currentSessionId' =
                    [currentSessionId EXCEPT ![t] = NewSessionId]
               /\ Goto(t, AfterResolve(NewSessionId, message[t]))
               /\ UNCHANGED status
          ELSE /\ UNCHANGED <<exists, title, currentSessionId>>
               /\ IF Threw(o) /\ ~Swallowed("create")
                  THEN OuterCatch(t)
                  ELSE /\ Goto(t, AfterResolve(currentSessionId[t], message[t]))
                       /\ UNCHANGED status
  /\ UNCHANGED <<req, message, conversationHistory, nResults,
                 propertyContext, sent, text, header, store>>

\* the body of the history answer read without the historyResponse.ok test
FetchHistoryUnchecked(t, outcomes) ==
  /\ pc[t] = "history"
  /\ \E o \in {OnSession(currentSessionId[t], x) : x \in outcomes} :
       /\ Issue(t, "history", o)
       /\ conversationHistory' =
            [conversationHistory EXCEPT
               ![t] = RecentHistory(store[currentSessionId[t]])]
       /\ Goto(t, "appendUser")
       /\ UNCHANGED status
  /\ UNCHANGED <<req, message, currentSessionId, nResults, propertyContext,
                 sent, text, header, service>>

\* fetch(`/sessions/${currentSessionId}/history`) and the last ten messages
FetchHistory(t, outcomes) ==
  /\ pc[t] = "history"
  /\ \E o \in {OnSession(currentSessionId[t], x) : x \in outcomes} :
       /\ Issue(t, "history", o)
       /\ IF o = "ok"
          THEN /\ conversationHistory' =
                    [conversationHistory EXCEPT
                       ![t] = RecentHistory(store[currentSessionId[t]])]
               /\ Goto(t, "appendUser")
               /\ UNCHANGED status
          ELSE /\ UNCHANGED conversationHistory
               /\ IF Threw(o) /\ ~Swallowed("history")
                  THEN OuterCatch(t)
                  ELSE Goto(t, "appendUser") /\ UNCHANGED status
  /\ UNCHANGED <<req, message, currentSessionId, nResults, propertyContext,
                 sent, text, header, service>>

\* the user append sent a second time
PersistUserMessageTwice(t, outcomes) ==
  /\ pc[t] = "appendUser"
  /\ \E o \in {OnSession(currentSessionId[t], x) : x \in Unread(outcomes)} :
       /\ Issue(t, "appendUser", o)
       /\ IF o = "ok"
          THEN store' = Appended(currentSessionId[t],
                                 Stored("user", message[t], UserMeta, t))
          ELSE UNCHANGED store
       /\ IF Threw(o) /\ ~Swallowed("appendUser")
          THEN OuterCatch(t)
          ELSE Goto(t, "appendUser") /\ UNCHANGED status
  /\ Count(calls[t], "appendUser") < 2
  /\ UNCHANGED <<locals_but_status, exists, title>>

\* fetch(`/sessions/${currentSessionId}/messages`, POST) of the user message;
\* the answer is not read
PersistUserMessage(t, outcomes) ==
  /\ pc[t] = "appendUser"
  /\ \E o \in {OnSession(currentSessionId[t], x) : x \in Unread(outcomes)} :
       /\ Issue(t, "appendUser", o)
       /\ IF o = "ok"
          THEN store' = Appended(currentSessionId[t],
                                 Stored("user", message[t], UserMeta, t))
          ELSE UNCHANGED store
       /\ IF Threw(o) /\ ~Swallowed("appendUser")
          THEN OuterCatch(t)
          ELSE Goto(t, AfterUserMessage(message[t])) /\ UNCHANGED status
  /\ UNCHANGED <<locals_but_status, exists, title>>

\* the property backend answers a search with at most `limit` of its matches
SearchResults(limit, matches) == Min(limit, matches)

\* the market summary fetched without the test of searchData.results.length
SearchPropertiesAnyCount(t, outcomes, maxMatches) ==
  /\ pc[t] = "search"
  /\ \E o \in outcomes, matches \in 0..maxMatches :
       /\ Issue(t, "search", o)
       /\ IF o = "ok"
          THEN /\ nResults' = [nResults EXCEPT
                                 ![t] = SearchResults(SearchLimit, matches)]
               /\ Goto(t, "market")
               /\ UNCHANGED status
          ELSE /\ UNCHANGED nResults
               /\ IF Threw(o) /\ ~Swallowed("context")
                  THEN OuterCatch(t)
                  ELSE Goto(t, "model") /\ UNCHANGED status
  /\ UNCHANGED <<req, message, currentSessionId, conversationHistory,
                 propertyContext, sent, text, header, service>>

\* getPropertyContext: fetch(`/api/analytics/search?q=...&limit=3`)
SearchProperties(t, outcomes, maxMatches) ==
  /\ pc[t] = "search"
  /\ \E o \in outcomes, matches \in 0..maxMatches :
       /\ Issue(t, "search", o)
       /\ IF o = "ok"
          THEN /\ nResults' = [nResults EXCEPT
                                 ![t] = SearchResults(SearchLimit, matches)]
               /\ Goto(t, IF SearchResults(SearchLimit, matches) > 0
                          THEN "market" ELSE "model")
               /\ UNCHANGED status
          ELSE /\ UNCHANGED nResults
               /\ IF Threw(o) /\ ~Swallowed("context")
                  THEN OuterCatch(t)
                  ELSE Goto(t, "model") /\ UNCHANGED status
  /\ UNCHANGED <<req, message, currentSessionId, conversationHistory,
                 propertyContext, sent, text, header, service>>

\* getPropertyContext: fetch(`/api/analytics/market-summary`) and the return
MarketSummary(t, outcomes) ==
  /\ pc[t] = "market"
  /\ \E o \in outcomes :
       /\ Issue(t, "market", o)
       /\ IF Threw(o) /\ ~Swallowed("context")
          THEN OuterCatch(t) /\ UNCHANGED propertyContext
          ELSE /\ propertyContext' = [propertyContext EXCEPT
                                        ![t] = DynamicSection(nResults[t], o)]
               /\ Goto(t, "model")
               /\ UNCHANGED status
  /\ UNCHANGED <<req, message, currentSessionId, conversationHistory,
                 nResults, sent, text, header, service>>

\* the messages array, await streamText(...) and the Response returned
CallModel(t) ==
  /\ pc[t] = "model"
  /\ sent' = [sent EXCEPT
                ![t] = BuildMessages(StaticContext \o propertyContext[t],
                                     conversationHistory[t], message[t])]
  /\ \E o \in {"ok", "throw"} :
       /\ Issue(t, "model", o)
       /\ IF o = "ok"
          THEN /\ status' = [status EXCEPT ![t] = 200]
               /\ header' = [header EXCEPT
                               ![t] = SessionHeader(currentSessionId[t])]
               /\ Goto(t, "streaming")
          ELSE OuterCatch(t) /\ UNCHANGED header
  /\ UNCHANGED <<req, message, currentSessionId, conversationHistory,
                 nResults, propertyContext, text, service>>

\* the stream ends and onFinish runs up to its fetch
StreamFinish(t) ==
  /\ pc[t] = "streaming"
  /\ \E txt \in ReplyTexts :
       /\ text' = [text EXCEPT ![t] = txt]
       /\ Goto(t, IF ShouldPersistAssistant(currentSessionId[t], txt)
                  THEN "persist" ELSE "done")
  /\ UNCHANGED <<req, message, currentSessionId, conversationHistory,
                 nResults, propertyContext, sent, status, header, calls,
                 outcome, payload, service>>

\* onFinish: fetch(`/sessions/${currentSessionId}/messages`, POST) of the
\* assistant message; the Response has been returned already
PersistAssistantMessage(t, outcomes) ==
  /\ pc[t] = "persist"
  /\ \E o \in {OnSession(currentSessionId[t], x) : x \in Unread(outcomes)} :
       /\ Issue(t, "appendAsst", o)
       /\ IF o = "ok"
          THEN store' = Appended(currentSessionId[t],
                                 Stored("assistant", text[t], AssistantMeta, t))
          ELSE UNCHANGED store
  /\ Goto(t, "done")
  /\ UNCHANGED <<locals, exists, title>>

Step(t, outcomes, maxMatches) ==
  \/ CreateSession(t, outcomes)
  \/ FetchHistory(t, outcomes)
  \/ PersistUserMessage(t, outcomes)
  \/ SearchProperties(t, outcomes, maxMatches)
  \/ MarketSummary(t, outcomes)
  \/ CallModel(t)
  \/ StreamFinish(t)
  \/ PersistAssistantMessage(t, outcomes)

\* one turn, any request body
Next == Receive(1, Bodies, Owners) \/ Step(1, Outcomes, MaxMatches)

Spec == Init /\ [][Next]_vars

\* the requests followed to the end of their turn: a message with and
\* without a property keyword, a blank one, a list of turns, and no message
FairBodies ==
  <<Body(TRUE, FALSE, <<>>, Str(Hi)),
    Body(TRUE, FALSE, <<>>, Str(RentQuery)),
    Body(TRUE, FALSE, <<>>, Str(Blank)),
    ArrayBodies[Len(ArrayBodies)],
    Body(FALSE, FALSE, <<>>, Undefined)>>

FairNext == Receive(1, FairBodies, Owners) \/ Step(1, Outcomes, MaxMatches)

\* a handler that has started runs to its end: every await of the handler is
\* on a call that returns or throws
FairSpec ==
  /\ Init
  /\ [][FairNext]_vars
  /\ WF_vars(Step(1, Outcomes, MaxMatches))

\* two turns that may overlap, on the same session or on different ones,
\* each with a well-formed request
ConcBodies ==
  <<Body(TRUE, FALSE, <<>>, Str(Hi)),
    Body(TRUE, FALSE, <<>>, Str(RentQuery))>>

ConcInit == InitWith({1})

\* a call succeeds or throws
ConcOutcomes == {"ok", "throw"}

\* no owner given
ConcOwners == << <<None, None>> >>

ConcNext ==
  \E t \in Turns :
    Receive(t, ConcBodies, ConcOwners) \/ Step(t, ConcOutcomes, 1)

ConcSpec == ConcInit /\ [][ConcNext]_vars

\* ------------------------------------------------- the two request shapes
\* Turn 1 receives a request in the {messages} shape and runs to its end;
\* turn 2 then receives the same text, session id and owner in the {message}
\* shape, against the service as it was before turn 1 and with the same
\* answer to every call.

\* the {messages} body ends with a user element
EndsWithUser(body) ==
  /\ body.parses
  /\ body.isArray
  /\ body.messages # <<>>
  /\ body.messages[Len(body.messages)].role = "user"

\* the {message} body with the text of the last element of a {messages} body
Twin(body) ==
  Body(TRUE, FALSE, <<>>, body.messages[Len(body.messages)].content)

\* a message persisted before the turns of the model
Earlier(m) == m.turn < 0

\* the service holds what it held before turn 1
Rewound ==
  /\ exists = {ExistingId}
  /\ \A s \in AllIds :
       title[s] = <<>> /\ \A i \in 1..Len(store[s]) : Earlier(store[s][i])

\* the service as it was before turn 1
Rewind ==
  /\ pc[1] = "done" /\ pc[2] = "idle"
  /\ ~Rewound
  /\ exists' = {ExistingId}
  /\ title' = [s \in AllIds |-> <<>>]
  /\ store' = [s \in AllIds |-> SelectSeq(store[s], Earlier)]
  /\ UNCHANGED <<pc, locals, calls, outcome, payload, route, hook,
                 props, basic>>

\* turn 2 receives the twin of the request of turn 1
ReceiveTwin ==
  /\ pc[1] = "done"
  /\ EndsWithUser(req[1].body)
  /\ Rewound
  /\ Receive(2, <<Twin(req[1].body)>>,
             << <<req[1].userId, req[1].userEmail>> >>)
  /\ req'[2].sessionId = req[1].sessionId

\* every call of turn 2 is answered as the same call of turn 1 was, where
\* turn 1 made that call
SameAnswers ==
  /\ \A c \in Calls :
       \/ outcome'[2][c] = outcome[2][c]
       \/ outcome'[2][c] = outcome[1][c]
       \/ outcome[1][c] = "none"
  /\ (pc[2] = "search" /\ outcome[1]["search"] = "ok")
     => nResults'[2] = nResults[1]
  /\ (pc[2] = "streaming" /\ status[1] = 200) => text'[2] = text[1]

Replay == Step(2, Outcomes, MaxMatches) /\ SameAnswers

ShapeNext ==
  \/ Receive(1, ArrayBodies, Owners)
  \/ Step(1, Outcomes, MaxMatches)
  \/ Rewind
  \/ ReceiveTwin
  \/ Replay

\* the session holds nothing, or the messages of MaxPastTurns turns
ShapeInit == InitWith({0, MaxPastTurns})

ShapeSpec == ShapeInit /\ [][ShapeNext]_vars

\* ------------------------------------------------ the conversations endpoint
\* app/api/conversations/route.ts (GET list, POST create) and
\* app/api/conversations/[sessionId]/route.ts (GET history, PUT update,
\* DELETE): each handler sends one request to the backend and answers.

RouteOps == <<"list", "create", "history", "update", "delete">>

\* a query parameter or a field of the body: absent, empty, or a value
Given(v) == <<None, "", v>>

\* the handlers that read request.json()
ReadsBody(op) == op \in {"create", "update"}

\* if (userId), if (userEmail), title || ..., limit || ...: a string is
\* taken when it is there and not empty
Present(v) == v # None /\ v # ""

Default(v, d) == IF Present(v) THEN v ELSE d

\* the owner-email lookup tried before the owner-id lookup
ListEndpointEmailFirst(r) ==
  IF Present(r.userEmail)
  THEN [path |-> <<"users", "email", r.userEmail, "sessions">>,
        query |-> <<Default(r.limit, "20"), Default(r.skip, "0")>>]
  ELSE IF Present(r.userId)
  THEN [path |-> <<"users", r.userId, "sessions">>,
        query |-> <<Default(r.limit, "20"), Default(r.skip, "0")>>]
  ELSE [path |-> <<"recent">>, query |-> <<Default(r.limit, "20")>>]

\* GET list: the endpoint chosen from userId and userEmail
ListEndpoint(r) ==
  IF Present(r.userId)
  THEN [path |-> <<"users", r.userId, "sessions">>,
        query |-> <<Default(r.limit, "20"), Default(r.skip, "0")>>]
  ELSE IF Present(r.userEmail)
  THEN [path |-> <<"users", "email", r.userEmail, "sessions">>,
        query |-> <<Default(r.limit, "20"), Default(r.skip, "0")>>]
  ELSE [path |-> <<"recent">>, query |-> <<Default(r.limit, "20")>>]

\* the request each handler sends to the backend
BackendRequest(r) ==
  IF r.op = "list"
  THEN [method |-> "GET", path |-> ListEndpoint(r).path,
        query |-> ListEndpoint(r).query, body |-> <<>>]
  ELSE IF r.op = "create"
  THEN [method |-> "POST", path |-> <<"sessions">>, query |-> <<>>,
        body |-> <<OrNull(r.userId), OrNull(r.userEmail),
                   Default(r.title, "New Conversation")>>]
  ELSE IF r.op = "history"
  THEN [method |-> "GET", path |-> <<"sessions", r.sessionId, "history">>,
        query |-> <<>>, body |-> <<>>]
  ELSE IF r.op = "update"
  THEN [method |-> "PUT", path |-> <<"sessions", r.sessionId>>,
        query |-> <<>>, body |-> <<r.title>>]
  ELSE [method |-> "DELETE", path |-> <<"sessions", r.sessionId>>,
        query |-> <<>>, body |-> <<>>]

\* how the backend answers: success, 404, another non-success status, a
\* thrown fetch, or a success whose body response.json() cannot read
RouteOutcomes == {"ok", "notFound", "status", "throw", "malformed"}

\* GET list and POST create: if (!response.ok) throw, and the catch
CollectionStatus(o) == IF o = "ok" THEN 200 ELSE 500

\* the 404 of the backend not told apart from its other failures
ItemStatusNoProxy(o) == IF o = "ok" THEN 200 ELSE 500

\* GET history, PUT and DELETE: if (!response.ok) { if (status === 404)
\* return 404; throw }, and the catch
ItemStatus(o) ==
  IF o = "ok" THEN 200 ELSE IF o = "notFound" THEN 404 ELSE 500

\* the handler reads its request and sends its request to the backend
RouteStart ==
  /\ routePc = "idle"
  /\ \E k \in 1..Len(RouteOps), i, j, l \in 1..3,
        sid \in {ExistingId, UnknownId}, parses \in BOOLEAN :
       LET r == RouteRequest(RouteOps[k], Given("u1")[i], Given("e1")[j],
                             Given("5")[l], Given("2")[l], sid, parses,
                             Given("Deals")[l])
       IN /\ routeReq' = r
          /\ IF ReadsBody(r.op) /\ ~parses
             THEN /\ routeStatus' = 500
                  /\ routePc' = "done"
                  /\ UNCHANGED routeCalls
             ELSE /\ routeCalls' = Append(routeCalls, BackendRequest(r))
                  /\ routePc' = "fetch"
                  /\ UNCHANGED routeStatus
  /\ UNCHANGED <<routeOutcome, server, hook,
                 props, basic>>

\* the backend answers and the handler returns its response
RouteAnswer ==
  /\ routePc = "fetch"
  /\ \E o \in RouteOutcomes :
       /\ routeOutcome' = o
       /\ routeStatus' = IF routeReq.op \in {"list", "create"}
                         THEN CollectionStatus(o) ELSE ItemStatus(o)
  /\ routePc' = "done"
  /\ UNCHANGED <<routeReq, routeCalls, server, hook,
                 props, basic>>

RouteNext == RouteStart \/ RouteAnswer

RouteSpec == InitWith({0}) /\ [][RouteNext]_vars

\* ------------------------------------------------------ the conversation hook
\* useConversationChat: sendMessage with createNewSession and the reading of
\* the stream. A call is cut at each await; the callbacks read the state of
\* the render that made them (seen), the setters write the state itself.

\* the chunks of a reply the model follows
MaxChunks == 2

\* ids the conversations endpoint hands out to the hook, in order
HookFresh == <<"n1", "n2">>

\* the texts typed
HookTexts == <<Hi, Blank>>

SendFailed == "Failed to send message. Please try again."

\* a message displayed: { id, role, content }
HookMsg(id, role, content) == [id |-> id, role |-> role, content |-> content]

\* a request sent by call i of sendMessage
HookCall(i, to, sid, m) ==
  [by |-> i, to |-> to, sessionId |-> sid, message |-> m]

\* the catch of sendMessage without its finally
HookFailsNoFinally(i) ==
  /\ hookError' = SendFailed
  /\ UNCHANGED isLoading
  /\ hookPc' = [hookPc EXCEPT ![i] = "done"]

\* the catch and the finally of sendMessage
HookFails(i) ==
  /\ hookError' = SendFailed
  /\ isLoading' = FALSE
  /\ hookPc' = [hookPc EXCEPT ![i] = "done"]

\* setMessages(prev => [...prev, userMessage]) and the fetch of
\* /api/chat/enhanced with { message, sessionId }
PostToChat(i, shown, sid, m) ==
  /\ hookMessages' = Append(shown, HookMsg(<<"user", i>>, "user", m))
  /\ hookCalls' = Append(hookCalls, HookCall(i, "chat", sid, m))
  /\ hookPc' = [hookPc EXCEPT ![i] = "sending"]

\* sendMessage(message) up to its first await. It is called from the submit
\* handler of the form: the state it sets before its first await is rendered
\* before the next event is handled, so the callbacks of the next event have
\* seen isLoading = true.
SendMessage(i) ==
  /\ hookPc[i] = "idle"
  /\ \E k \in 1..Len(HookTexts) :
       LET m == HookTexts[k] IN
       IF trim(m) = <<>> \/ seen.isLoading
       THEN /\ hookPc' = [hookPc EXCEPT ![i] = "done"]
            /\ UNCHANGED <<hookLocal, hookMessages, isLoading, hookError,
                           hookCalls, seen>>
       ELSE /\ isLoading' = TRUE
            /\ seen' = [seen EXCEPT !.isLoading = TRUE]
            /\ hookError' = None
            /\ hookLocal' = [hookLocal EXCEPT
                               ![i] = [message |-> m,
                                       sessionId |-> seen.currentSessionId,
                                       closure |-> seen.currentSessionId,
                                       assistantContent |-> <<>>,
                                       started |-> TRUE]]
            /\ IF ~Present(seen.currentSessionId)
               THEN /\ hookCalls' =
                         Append(hookCalls, HookCall(i, "create", None, <<>>))
                    /\ hookPc' = [hookPc EXCEPT ![i] = "creating"]
                    /\ UNCHANGED hookMessages
               ELSE PostToChat(i, hookMessages, seen.currentSessionId, m)
  /\ UNCHANGED <<hookSessionId, hookOutcome, server, route,
                 props, basic>>

\* the id of the session that POST /api/conversations creates next
NewHookId ==
  HookFresh[Cardinality({i \in Sends : hookOutcome[i]["create"] = "ok"}) + 1]

\* createNewSession: the answer to POST /api/conversations
CreateAnswered(i) ==
  /\ hookPc[i] = "creating"
  /\ \E o \in {"ok", "status", "throw"} :
       /\ hookOutcome' = [hookOutcome EXCEPT ![i]["create"] = o]
       /\ IF o = "ok"
          THEN /\ hookSessionId' = NewHookId
               /\ hookMessages' = <<>>
               /\ hookLocal' = [hookLocal EXCEPT ![i].sessionId = NewHookId]
               /\ hookPc' = [hookPc EXCEPT ![i] = "refreshing"]
               /\ UNCHANGED <<isLoading, hookError>>
          ELSE /\ HookFails(i)
               /\ UNCHANGED <<hookSessionId, hookMessages, hookLocal>>
  /\ UNCHANGED <<seen, hookCalls, server, route,
                 props, basic>>

\* createNewSession returns after its loadSessions(), and sendMessage goes
\* on with the new id
SessionsRefreshed(i) ==
  /\ hookPc[i] = "refreshing"
  /\ PostToChat(i, hookMessages, hookLocal[i].sessionId,
                hookLocal[i].message)
  /\ UNCHANGED <<hookLocal, hookSessionId, isLoading, hookError, seen,
                 hookOutcome, server, route,
                 props, basic>>

\* the answer to the chat request: the X-Session-Id header and the empty
\* assistant message, or the throw on !response.ok
ChatAnswered(i) ==
  /\ hookPc[i] = "sending"
  /\ \E o \in {"ok", "status", "throw"} :
       /\ hookOutcome' = [hookOutcome EXCEPT ![i]["chat"] = o]
       /\ IF o = "ok"
          THEN LET fromHeader == SessionHeader(hookLocal[i].sessionId) IN
               /\ hookSessionId' =
                    IF Present(fromHeader) /\ fromHeader # hookLocal[i].closure
                    THEN fromHeader ELSE hookSessionId
               /\ hookMessages' =
                    Append(hookMessages,
                           HookMsg(<<"assistant", i>>, "assistant", <<>>))
               /\ hookPc' = [hookPc EXCEPT ![i] = "reading"]
               /\ UNCHANGED <<isLoading, hookError>>
          ELSE /\ HookFails(i)
               /\ UNCHANGED <<hookSessionId, hookMessages>>
  /\ UNCHANGED <<hookLocal, seen, hookCalls, server, route,
                 props, basic>>

\* one reader.read(): a chunk with a 0: line, the end of the stream, or an
\* error
StreamRead(i) ==
  /\ hookPc[i] = "reading"
  /\ \E ev \in {"data", "end", "error"} :
       IF ev = "data"
       THEN /\ Len(hookLocal[i].assistantContent) < MaxChunks
            /\ hookLocal' = [hookLocal EXCEPT
                               ![i].assistantContent = Append(@, "tok")]
            /\ hookMessages' =
                 [k \in 1..Len(hookMessages) |->
                    IF hookMessages[k].id = <<"assistant", i>>
                    THEN [hookMessages[k] EXCEPT
                            !.content = hookLocal'[i].assistantContent]
                    ELSE hookMessages[k]]
            /\ UNCHANGED <<hookPc, isLoading, hookError>>
       ELSE IF ev = "end"
       THEN /\ hookPc' = [hookPc EXCEPT ![i] = "reloading"]
            /\ UNCHANGED <<hookLocal, hookMessages, isLoading, hookError>>
       ELSE /\ HookFails(i)
            /\ UNCHANGED <<hookLocal, hookMessages>>
  /\ UNCHANGED <<hookSessionId, seen, hookCalls, hookOutcome, server, route,
                 props, basic>>

\* the loadSessions() after the stream, and the finally
SessionsReloaded(i) ==
  /\ hookPc[i] = "reloading"
  /\ hookPc' = [hookPc EXCEPT ![i] = "done"]
  /\ isLoading' = FALSE
  /\ UNCHANGED <<hookLocal, hookSessionId, hookMessages, hookError, seen,
                 hookCalls, hookOutcome, server, route,
                 props, basic>>

\* the sessions of the sidebar
SwitchTargets == <<ExistingId, "s2">>

LoadFailed == "Failed to load conversation history"

\* GET /api/conversations/{id}: the messages of the session, each mapped to
\* { id, role, content }
HookHistory(sid) ==
  <<HookMsg(<<sid, 1>>, "user", Hi), HookMsg(<<sid, 2>>, "assistant", <<"tok">>)>>

\* switchToSession(sessionId) up to the fetch of loadMessages. It is called
\* from a click in the sidebar or from the effect on the sessionId prop: the
\* id it sets is rendered before the next event.
SwitchToSession(k) ==
  /\ hookPc[k] = "idle"
  /\ \E n \in 1..Len(SwitchTargets) :
       LET sid == SwitchTargets[n] IN
       /\ hookSessionId' = sid
       /\ seen' = [seen EXCEPT !.currentSessionId = sid]
       /\ hookLocal' = [hookLocal EXCEPT
                          ![k] = [message |-> <<>>, sessionId |-> sid,
                                  closure |-> seen.currentSessionId,
                                  assistantContent |-> <<>>,
                                  started |-> TRUE]]
       /\ hookCalls' = Append(hookCalls, HookCall(k, "history", sid, <<>>))
  /\ hookPc' = [hookPc EXCEPT ![k] = "loading"]
  /\ UNCHANGED <<hookMessages, isLoading, hookError, hookOutcome, server,
                 route,
                 props, basic>>

\* loadMessages: the answer to GET /api/conversations/{id}
MessagesLoaded(k) ==
  /\ hookPc[k] = "loading"
  /\ \E o \in {"ok", "status", "throw"} :
       /\ hookOutcome' = [hookOutcome EXCEPT ![k]["history"] = o]
       /\ hookMessages' = IF o = "ok" THEN HookHistory(hookLocal[k].sessionId)
                          ELSE hookMessages
       /\ hookError' = IF o = "throw" THEN LoadFailed ELSE hookError
  /\ hookPc' = [hookPc EXCEPT ![k] = "done"]
  /\ UNCHANGED <<hookLocal, hookSessionId, isLoading, seen, hookCalls,
                 server, route,
                 props, basic>>

\* a render: the callbacks are made again from the state
Render ==
  /\ seen # [currentSessionId |-> hookSessionId, isLoading |-> isLoading]
  /\ seen' = [currentSessionId |-> hookSessionId, isLoading |-> isLoading]
  /\ UNCHANGED <<hookPc, hookLocal, hookSessionId, hookMessages, isLoading,
                 hookError, hookCalls, hookOutcome, server, route,
                 props, basic>>

HookNext ==
  \/ \E i \in Sends :
       \/ SendMessage(i)
       \/ CreateAnswered(i)
       \/ SessionsRefreshed(i)
       \/ ChatAnswered(i)
       \/ StreamRead(i)
       \/ SessionsReloaded(i)
  \/ Render

\* the hook mounted without a session id, or with the id of a session
HookStart ==
  /\ \E sid \in {None, ExistingId} : HookInit(sid)
  /\ RouteInit
  /\ ServerInit({0})
  /\ PropInit(0)
  /\ BasicInit

HookSpec == HookStart /\ [][HookNext]_vars

\* the sidebar alone: sessions are picked one after the other, each pick
\* before or after the history of the one before has arrived
SwitchNext ==
  \E k \in Switches :
    \/ SwitchToSession(k)
    \/ MessagesLoaded(k)

SwitchSpec == HookStart /\ [][SwitchNext]_vars

\* ------------------------------------------------------------------ claims
\* what a request carries as its message, whatever the handler makes of it
CarriedMessage(body) ==
  IF body.isArray
  THEN IF body.messages = <<>> THEN Undefined
       ELSE body.messages[Len(body.messages)].content
  ELSE body.message

\* missing, not a string, empty or made of white space only
BlankOrNotText(v) ==
  \/ v.type # "string"
  \/ \A i \in 1..Len(v.chars) : v.chars[i] \in Whitespace

\* a JSON object in one of the two input shapes that carries a message text
WellFormed(body) ==
  /\ body.parses
  /\ ~BlankOrNotText(CarriedMessage(body))
  /\ body.isArray => body.messages[Len(body.messages)].role = "user"

Started(t) == pc[t] # "idle"

Failed(t, c) == outcome[t][c] \in {"status", "throw", "malformed"}

\* C1: a request (a JSON object, in either input shape) whose message is
\* missing, empty, white space only or not a string is answered 400, and the
\* handler has issued no external call and left the services untouched.
C1_BlankMessageRejected ==
  \A t \in Turns :
    (Started(t) /\ req[t].body.parses
       /\ BlankOrNotText(CarriedMessage(req[t].body)))
    => /\ status[t] = 400
       /\ pc[t] = "done"
       /\ calls[t] = <<>>
       /\ \A c \in Calls : outcome[t][c] = "none"
       /\ exists = {ExistingId}

\* a white-space-only message in the {messages} shape has been answered 400
C1_Witness ==
  \E t \in Turns :
    /\ status[t] = 400
    /\ req[t].body.isArray
    /\ req[t].body.messages = <<Msg("user", Str(Blank))>>

\* C2: for a valid message, whatever fails among session creation, history
\* fetch, user-message append, property search and market summary, the turn
\* reaches the model call, and if the model call succeeds the response is the
\* stream (status 200); every error ends in a response, none escapes.
C2_ReplyDespiteFailures ==
  \A t \in Turns :
    (Started(t) /\ WellFormed(req[t].body))
    => /\ outcome[t]["model"] = "ok" => status[t] = 200
       /\ pc[t] = "done" => outcome[t]["model"] # "none"
       /\ pc[t] = "done" => status[t] \in {200, 500}

\* history fetch thrown, user append refused, property search thrown, and the
\* model reply is streamed
C2_Witness ==
  \E t \in Turns :
    /\ outcome[t]["history"] = "throw"
    /\ outcome[t]["appendUser"] = "status"
    /\ outcome[t]["search"] = "throw"
    /\ outcome[t]["model"] = "ok"
    /\ status[t] = 200

\* C3: for a valid message the response is a 5xx exactly when the model call
\* failed; no failure of another service gives a non-success status.
C3_ErrorIffModelFails ==
  \A t \in Turns :
    (Started(t) /\ WellFormed(req[t].body))
    => /\ status[t] = 500 <=> outcome[t]["model"] = "throw"
       /\ status[t] \in {0, 200, 500}
       /\ (status[t] = 0) <=> (outcome[t]["model"] = "none")

\* a turn all of whose services answered and whose model call threw is
\* answered 500
C3_Witness ==
  \E t \in Turns :
    /\ outcome[t]["create"] = "ok"
    /\ outcome[t]["history"] = "ok"
    /\ outcome[t]["appendUser"] = "ok"
    /\ outcome[t]["search"] = "ok"
    /\ outcome[t]["market"] = "ok"
    /\ outcome[t]["model"] = "throw"
    /\ status[t] = 500

\* the last min(n, 10) of n persisted messages, as role and content
LastTen(h) ==
  LET m == Min(Len(h), 10)
  IN [i \in 1..m |-> Msg(h[Len(h) - m + i].sender, h[Len(h) - m + i].content)]

\* the text of the request of turn t
RequestText(t) == CarriedMessage(req[t].body).chars

\* turn t receives the answer to its history fetch
FetchAnswered(t) ==
  /\ pc[t] = "history"
  /\ pc'[t] # "history"
  /\ currentSessionId[t] \in AllIds

\* the history kept by turn t is the last min(n, 10) messages persisted for
\* its session at the time of the fetch, none of them appended by turn t
KeepsLastTen(t) ==
  /\ conversationHistory'[t] = LastTen(store[currentSessionId[t]])
  /\ \A i \in 1..Len(store[currentSessionId[t]]) :
       store[currentSessionId[t]][i].turn # t

\* the outbound list is the system message, the history kept, and the new
\* user message once, at the end
HistoryThenNewMessage ==
  \A t \in Turns :
    sent[t] # <<>>
    => /\ Len(sent[t]) = Len(conversationHistory[t]) + 2
       /\ SubSeq(sent[t], 2, Len(sent[t]) - 1) = conversationHistory[t]
       /\ sent[t][Len(sent[t])] = Msg("user", RequestText(t))

\* C4 as stated: for a session with n persisted messages the outbound list
\* holds exactly the last min(n, 10) of them, in order, then the new user
\* message once - whatever the history fetch answered.
C4_AsStated ==
  /\ [][\A t \in Turns : FetchAnswered(t) => KeepsLastTen(t)]_vars
  /\ []HistoryThenNewMessage

\* C4 (amended): when the history fetch of the turn succeeds, the outbound
\* list holds exactly the last min(n, 10) of the n messages persisted for the
\* session at the time of the fetch, in their persisted order, followed by
\* the new user message once; the new user message is not among the fetched.
C4_LastTenWhenFetched ==
  /\ [][\A t \in Turns :
          (FetchAnswered(t) /\ outcome'[t]["history"] = "ok")
          => KeepsLastTen(t)]_vars
  /\ []HistoryThenNewMessage

\* a session of 12 messages: the outbound list is the system message, the
\* messages 3..12 and the new user message
C4_Witness ==
  \E t \in Turns :
    /\ Len(store[ExistingId]) >= 12
    /\ outcome[t]["history"] = "ok"
    /\ Len(sent[t]) = 12
    /\ sent[t][2] = Msg("user", <<"q", "2">>)
    /\ sent[t][11] = Msg("assistant", <<"a", "6">>)

\* C5: in every turn that reaches the model call the outbound list has one
\* system message, first; then the history kept, at most ten messages in the
\* order in which the session holds them; then the new user message, last.
C5_OutboundOrder ==
  \A t \in Turns :
    sent[t] # <<>>
    => LET n == Len(sent[t])
           h == IF currentSessionId[t] \in AllIds
                THEN store[currentSessionId[t]] ELSE <<>>
       IN /\ n >= 2 /\ n - 2 <= 10
          /\ sent[t][1].role = "system"
          /\ \A i \in 2..n : sent[t][i].role \in {"user", "assistant"}
          /\ sent[t][n] = Msg("user", RequestText(t))
          /\ n > 2 =>
               \E off \in 0..(Len(h) - (n - 2)) :
                 \A i \in 1..(n - 2) :
                   sent[t][i + 1] = Msg(h[off + i].sender, h[off + i].content)

\* a model call with a history of two messages between the system message
\* and the new user message
C5_Witness ==
  \E t \in Turns :
    /\ Len(sent[t]) = 4
    /\ sent[t][2] = Msg("user", <<"q", "1">>)
    /\ sent[t][3] = Msg("assistant", <<"a", "1">>)
    /\ sent[t][4].role = "user"

\* a model call with an empty history: the system message and the new user
\* message only
C5_WitnessEmpty ==
  \E t \in Turns : Len(sent[t]) = 2 /\ outcome[t]["history"] = "ok"

\* the stream of turn t has ended and onFinish has run to its end
Finished(t) == status[t] = 200 /\ pc[t] = "done"

\* the turn has a session id: supplied, or created by the session service
Resolved(t) == req[t].sessionId # None \/ outcome[t]["create"] = "ok"

\* C6 as stated: whenever the stream of a turn completes, exactly one
\* persistence attempt is made for the assistant text.
C6_AsStated ==
  \A t \in Turns : Finished(t) => Count(calls[t], "appendAsst") = 1

\* the assistant append of turn t leaves the response as it was returned
ResponseKept(t) ==
  pc[t] = "persist" => status'[t] = status[t] /\ header'[t] = header[t]

\* C6 (amended): whenever the stream of a turn completes with a session id
\* resolved and a non-empty text, exactly one persistence attempt is made,
\* for the full text tagged with model and usage; with no session id or an
\* empty text none is made. The attempt is never repeated and, failed or
\* not, leaves the response returned as it was.
C6_OneAttemptWhenSessionAndText ==
  /\ [](\A t \in Turns :
          /\ Count(calls[t], "appendAsst") <= 1
          /\ Finished(t) =>
               Count(calls[t], "appendAsst")
                 = (IF Resolved(t) /\ text[t] # <<>> THEN 1 ELSE 0)
          /\ outcome[t]["appendAsst"] = "ok" =>
               \E i \in 1..Len(store[currentSessionId[t]]) :
                 LET m == store[currentSessionId[t]][i]
                 IN /\ m.sender = "assistant" /\ m.content = text[t]
                    /\ m.turn = t /\ {"model", "usage"} \subseteq m.metadata)
  /\ [][\A t \in Turns : ResponseKept(t)]_vars

\* the only attempt to persist the assistant text threw, and the response is
\* the stream all the same
C6_Witness ==
  \E t \in Turns :
    /\ Finished(t)
    /\ outcome[t]["appendAsst"] = "throw"
    /\ Count(calls[t], "appendAsst") = 1
    /\ text[t] = ReplyText

\* C7 as stated: in every session every persisted assistant message comes
\* right after the user message of its own turn, also when appends fail and
\* when two turns on the session overlap.
C7_AsStated ==
  \A s \in AllIds :
    \A i \in 1..Len(store[s]) :
      store[s][i].sender = "assistant"
      => /\ i > 1
         /\ store[s][i - 1].sender = "user"
         /\ store[s][i - 1].turn = store[s][i].turn

IsPrefix(a, b) == Len(a) <= Len(b) /\ SubSeq(b, 1, Len(a)) = a

\* C7 (amended): every persisted assistant message comes after - not always
\* right after - the user message of its own turn, provided the append of
\* that user message succeeded; a turn persists at most one user and one
\* assistant message; and what a session holds keeps its order: the sequence
\* only grows at its end.
C7_UserBeforeAssistant ==
  /\ [](\A s \in AllIds :
          \A i \in 1..Len(store[s]) :
            LET m == store[s][i]
            IN /\ \A j \in 1..Len(store[s]) :
                    (store[s][j].turn = m.turn
                       /\ store[s][j].sender = m.sender) => j = i
               /\ (m.sender = "assistant" /\ m.turn \in Turns
                     /\ outcome[m.turn]["appendUser"] = "ok")
                  => \E j \in 1..(i - 1) :
                       /\ store[s][j].sender = "user"
                       /\ store[s][j].turn = m.turn)
  /\ [][\A s \in AllIds : IsPrefix(store[s], store'[s])]_vars

\* two turns overlap on one session: both user messages are persisted before
\* either assistant message, so an assistant message follows the other
\* turn's message
C7_Witness ==
  \E s \in AllIds :
    \E i \in 1..Len(store[s]) :
      /\ i + 3 <= Len(store[s])
      /\ store[s][i].sender = "user" /\ store[s][i].turn = 1
      /\ store[s][i + 1].sender = "user" /\ store[s][i + 1].turn = 2
      /\ store[s][i + 2].sender = "assistant" /\ store[s][i + 2].turn = 1
      /\ store[s][i + 3].sender = "assistant" /\ store[s][i + 3].turn = 2

\* C8: a turn that returns the stream carries in X-Session-Id the session id
\* of the turn: the one supplied, or else the one the session service has
\* just created and returned (not empty); the header is empty only when no
\* id was supplied and none could be created.
C8_HeaderCarriesSessionId ==
  \A t \in Turns :
    status[t] = 200
    => IF req[t].sessionId # None THEN header[t] = req[t].sessionId
       ELSE IF outcome[t]["create"] = "ok"
            THEN /\ header[t] # ""
                 /\ header[t] \in exists \ {ExistingId}
                 /\ title[header[t]] # <<>>
            ELSE header[t] = ""

\* no id supplied, a session created, and its id in the header of the stream
C8_Witness ==
  \E t \in Turns :
    /\ status[t] = 200
    /\ req[t].sessionId = None
    /\ header[t] = FreshIds[1]
    /\ exists = {ExistingId, FreshIds[1]}

\* every call the turn issued was answered with success, the session was
\* created for the turn, and the model replied with some text
Healthy(t) ==
  /\ \A c \in Calls : outcome[t][c] \in {"ok", "none"}
  /\ req[t].sessionId = None
  /\ outcome[t]["create"] = "ok"
  /\ outcome[t]["model"] = "ok"
  /\ text[t] # <<>>

\* the session named in the response of turn t holds the user message of the
\* turn and then its assistant message, and nothing else
HoldsTheTurn(t) ==
  LET h == store[header[t]]
  IN /\ Len(h) = 2
     /\ h[1].sender = "user" /\ h[1].content = RequestText(t)
     /\ h[2].sender = "assistant" /\ h[2].content = text[t]

\* C9: a turn with no supplied session id runs to its end, and if all the
\* services were healthy the session created for it then holds exactly two
\* messages: the user message, then the assistant message.
C9_TwoMessagesAfterTurn ==
  \A t \in Turns :
    (pc[t] = "create") ~> (pc[t] = "done" /\ (Healthy(t) => HoldsTheTurn(t)))

\* a healthy turn has ended and its new session holds the two messages
C9_Witness ==
  \E t \in Turns : pc[t] = "done" /\ Healthy(t) /\ HoldsTheTurn(t)

\* no session id was supplied and the creation of one failed
CreationFailed(t) == req[t].sessionId = None /\ Failed(t, "create")

NoSessionCall(t) ==
  /\ Count(calls[t], "history") = 0
  /\ Count(calls[t], "appendUser") = 0
  /\ Count(calls[t], "appendAsst") = 0

\* C10 as stated: when the session creation fails the turn issues no history
\* fetch and no append, and the reply is streamed.
C10_AsStated ==
  \A t \in Turns :
    CreationFailed(t)
    => /\ NoSessionCall(t)
       /\ pc[t] = "done" => status[t] = 200

\* C10 (amended): when the session creation fails the turn goes on with no
\* session id: it issues no history fetch and no append, it calls the model,
\* and the reply is streamed whenever the model call succeeds (otherwise the
\* answer is the 500 of the model failure).
C10_NoSessionStillReplies ==
  \A t \in Turns :
    CreationFailed(t)
    => /\ NoSessionCall(t)
       /\ pc[t] = "done" =>
            /\ outcome[t]["model"] # "none"
            /\ status[t] = 200 <=> outcome[t]["model"] = "ok"
            /\ status[t] = 200 => header[t] = ""

\* the creation was refused, the model was the only other call that the
\* turn made, and the reply was streamed
C10_Witness ==
  \E t \in Turns :
    /\ outcome[t]["create"] = "status"
    /\ calls[t] = <<"create", "model">>
    /\ status[t] = 200
    /\ pc[t] = "done"

\* turn t receives an answer to its history fetch that is a failure
FetchFails(t) ==
  /\ pc[t] = "history"
  /\ pc'[t] # "history"
  /\ outcome'[t]["history"] \in {"throw", "status", "malformed"}

\* C12: when the history fetch of the resolved session fails (thrown error,
\* non-success status or malformed body) no error is raised, the handler goes
\* on to the user append with an empty history, and the outbound model
\* message list is exactly the system message followed by the new user
\* message.
C12_EmptyHistoryOnFailedFetch ==
  /\ [][\A t \in Turns :
          FetchFails(t)
          => /\ pc'[t] = "appendUser"
             /\ status'[t] = status[t]
             /\ conversationHistory'[t] = <<>>]_vars
  /\ [](\A t \in Turns :
          (Failed(t, "history") /\ sent[t] # <<>>)
          => /\ Len(sent[t]) = 2
             /\ sent[t][1].role = "system"
             /\ sent[t][2] = Msg("user", RequestText(t)))

\* the history of a session that holds messages was answered with a body
\* that could not be read, and the reply was streamed from a list of two
C12_Witness ==
  \E t \in Turns :
    /\ outcome[t]["history"] = "malformed"
    /\ currentSessionId[t] = ExistingId
    /\ Len(store[ExistingId]) > 2
    /\ Len(sent[t]) = 2
    /\ status[t] = 200

\* turn t receives the answer to the append of its user message
AppendAnswered(t) == pc[t] = "appendUser" /\ pc'[t] # "appendUser"

\* the messages that the session of turn t held before the turn
HeldBefore(t) ==
  IF currentSessionId[t] \in AllIds
  THEN Cardinality({i \in 1..Len(store[currentSessionId[t]]) :
                      store[currentSessionId[t]][i].turn # t})
  ELSE 0

\* C13: a turn issues at most one append of the user message; whether the
\* append succeeds, is answered a non-success status or throws, the handler
\* goes on to the context assembly with the response status and everything
\* the outbound list is built from unchanged, and the list sent to the model
\* has the length it has without the append.
C13_OneUserAppendNoEffect ==
  /\ [][\A t \in Turns :
          AppendAnswered(t)
          => /\ Count(calls'[t], "appendUser") = 1
             /\ pc'[t] \in {"search", "model"}
             /\ status'[t] = status[t]
             /\ sent'[t] = sent[t]
             /\ message'[t] = message[t]
             /\ conversationHistory'[t] = conversationHistory[t]
             /\ propertyContext'[t] = propertyContext[t]]_vars
  /\ [](\A t \in Turns :
          /\ Count(calls[t], "appendUser") <= 1
          /\ sent[t] # <<>> =>
               Len(sent[t]) = 2 + (IF outcome[t]["history"] = "ok"
                                   THEN Min(10, HeldBefore(t)) ELSE 0))

\* the append of the user message threw and the reply was streamed
C13_Witness ==
  \E t \in Turns :
    /\ outcome[t]["appendUser"] = "throw"
    /\ Count(calls[t], "appendUser") = 1
    /\ outcome[t]["history"] = "ok"
    /\ Len(sent[t]) > 2
    /\ status[t] = 200

\* the four knowledge-base entries with a blank line between them
Baseline == <<"kb1", "\n\n", "kb2", "\n\n", "kb3", "\n\n", "kb4">>

\* the context carried by the system message that turn t sent to the model
ContextSent(t) ==
  LET c == sent[t][1].content IN SubSeq(c, 3, Len(c) - 1)

\* the first k numbered record lines
NumberedLines(k) == [i \in 1..k |-> <<"1. info", "2. info", "3. info">>[i]]

\* a failure of the retrieval service is not an error of the turn
RetrievalSwallowed(t) ==
  (Failed(t, "search") \/ Failed(t, "market"))
  => /\ pc[t] \in {"model", "streaming", "persist", "done"}
     /\ status[t] = 500 => outcome[t]["model"] = "throw"

\* C14 as stated: a network error or a non-success status of the property
\* search or of the market summary is swallowed and the context sent to the
\* model is the static baseline.
C14_AsStated ==
  \A t \in Turns :
    /\ RetrievalSwallowed(t)
    /\ (/\ sent[t] # <<>>
        /\ \/ outcome[t]["search"] \in {"throw", "status"}
           \/ outcome[t]["market"] \in {"throw", "status"})
       => ContextSent(t) = Baseline

\* C14 (amended): every failure of the retrieval service is swallowed and
\* the turn goes on to the model call. The context is the static baseline
\* when the property search fails in any way or the market summary throws
\* (or its body cannot be read); when the market summary is answered a
\* non-success status the dynamic section is kept with its heading, its
\* record lines and its closing instruction, only the market overview is
\* left out.
C14_RetrievalFailureSwallowed ==
  \A t \in Turns :
    /\ RetrievalSwallowed(t)
    /\ sent[t] # <<>> =>
         /\ (Failed(t, "search")
               \/ outcome[t]["market"] \in {"throw", "malformed"})
            => ContextSent(t) = Baseline
         /\ outcome[t]["market"] = "status"
            => ContextSent(t) =
                 Baseline \o <<"RELEVANT PROPERTY DATA:">>
                 \o NumberedLines(nResults[t])
                 \o <<"Use this specific property data">>

\* the search found records, the market summary threw, and the reply was
\* streamed from the static baseline alone
C14_Witness ==
  \E t \in Turns :
    /\ outcome[t]["search"] = "ok"
    /\ nResults[t] = 2
    /\ outcome[t]["market"] = "throw"
    /\ sent[t] # <<>>
    /\ ContextSent(t) = Baseline
    /\ status[t] = 200

\* keyword kw stands in q at position i, letter case apart
MatchesAt(q, kw, i) ==
  /\ i + Len(kw) - 1 <= Len(q)
  /\ \A j \in 1..Len(kw) : LowerChar(q[i + j - 1]) = LowerChar(kw[j])

\* q contains one of the fixed property keywords
HasKeyword(q) ==
  \E k \in 1..Len(propertyKeywords), i \in 1..Len(q) :
    MatchesAt(q, propertyKeywords[k], i)

\* C15: for a query that contains none of the fixed property keywords the
\* turn issues no call to the property search or to the market summary, and
\* the context sent to the model is exactly the static knowledge-base entries
\* joined by blank lines.
C15_NoKeywordStaticOnly ==
  \A t \in Turns :
    (Started(t) /\ WellFormed(req[t].body) /\ ~HasKeyword(RequestText(t)))
    => /\ Count(calls[t], "search") = 0
       /\ Count(calls[t], "market") = 0
       /\ outcome[t]["search"] = "none"
       /\ outcome[t]["market"] = "none"
       /\ propertyContext[t] = <<>>
       /\ sent[t] # <<>> => ContextSent(t) = Baseline

\* "ren t" was answered with a reply built from the static context alone
C15_Witness ==
  \E t \in Turns :
    /\ pc[t] = "done"
    /\ status[t] = 200
    /\ RequestText(t) = NearMiss
    /\ ~HasKeyword(RequestText(t))
    /\ ContextSent(t) = Baseline

\* the dynamic section with k record lines and the market overview with its
\* three figures
FullDynamicSection(k) ==
  <<"RELEVANT PROPERTY DATA:">> \o NumberedLines(k)
  \o <<"MARKET OVERVIEW:", "Total Properties", "Average Annual Rent",
       "Average Size">>
  \o <<"Use this specific property data">>

\* the search of turn t was answered with at least one result and the turn
\* has made its model call
ResultsSent(t) ==
  /\ sent[t] # <<>>
  /\ HasKeyword(RequestText(t))
  /\ outcome[t]["search"] = "ok"
  /\ nResults[t] >= 1

Truncated(m) ==
  IF Len(m) <= 50 THEN m
  ELSE [i \in 1..53 |-> IF i <= 50 THEN m[i] ELSE "."]

\* C17: the title given to the session created for a first message m is m
\* itself when m has at most 50 characters and otherwise the first 50
\* characters of m followed by three dots, 53 characters in all; no title is
\* longer than 53 characters.
C17_TitleTruncation ==
  /\ \A t \in Turns :
       outcome[t]["create"] = "ok"
       => /\ title[currentSessionId[t]] = Truncated(RequestText(t))
          /\ Len(RequestText(t)) > 50
             => Len(title[currentSessionId[t]]) = 53
  /\ \A s \in AllIds : Len(title[s]) <= 53

\* a session was created for a message of 60 characters and its title has
\* 53
C17_Witness ==
  \E t \in Turns :
    /\ outcome[t]["create"] = "ok"
    /\ Len(RequestText(t)) = 60
    /\ Len(title[currentSessionId[t]]) = 53
    /\ SubSeq(title[currentSessionId[t]], 51, 53) = <<".", ".", ".">>

\* the twin has run to its end
TwinDone == pc[1] = "done" /\ pc[2] = "done"

\* a {messages} body whose list is empty or does not end with a user element
NoUserAtEnd(body) ==
  /\ body.parses
  /\ body.isArray
  /\ \/ Len(body.messages) = 0
     \/ body.messages[Len(body.messages)].role # "user"

\* C18: a request in the {messages} shape whose last element has role user
\* and the request in the {message} shape with the same text, session id and
\* owner, run against the same service state with the same answers, get the
\* same response status and session header, issue the same external calls
\* in the same order with the same payloads, and hand the same message list
\* to the model; a {messages} list that is empty or does not end with a user
\* element is answered 400 with no external call.
C18_ShapesEquivalent ==
  /\ pc[2] # "idle" =>
       /\ req[2].body = Twin(req[1].body)
       /\ req[2].sessionId = req[1].sessionId
       /\ IsPrefix(calls[2], calls[1])
  /\ TwinDone =>
       /\ status[2] = status[1]
       /\ header[2] = header[1]
       /\ calls[2] = calls[1]
       /\ payload[2] = payload[1]
       /\ sent[2] = sent[1]
  /\ \A t \in Turns :
       (Started(t) /\ NoUserAtEnd(req[t].body))
       => status[t] = 400 /\ pc[t] = "done" /\ calls[t] = <<>>

\* the list [user hi, assistant hi, user Rent?] and its twin "Rent?" both
\* created a session, searched, called the model and persisted the reply
C18_Witness ==
  /\ TwinDone
  /\ Len(req[1].body.messages) = 3
  /\ req[2].body.message = Str(RentQuery)
  /\ calls[2] = <<"create", "history", "appendUser", "search", "market",
                  "model", "appendAsst">>
  /\ payload[2][1].owner = <<"u1", None>>
  /\ status[2] = 200

\* an empty {messages} list has been answered 400
C18_WitnessRejected ==
  \E t \in Turns :
    /\ req[t].body.parses /\ req[t].body.isArray
    /\ req[t].body.messages = <<>>
    /\ status[t] = 400

\* a query parameter was supplied with a value
Supplied(v) == v \notin {None, ""}

\* C19: a session-list request sends exactly one lookup to the backend: the
\* owner-id lookup whenever an owner id is supplied, also with an email; the
\* owner-email lookup when only an email is supplied; the recent-sessions
\* lookup when neither is.
C19_ListPrecedence ==
  (routeReq.op = "list" /\ routePc # "idle")
  => /\ Len(routeCalls) = 1
     /\ routeCalls[1].method = "GET"
     /\ Supplied(routeReq.userId)
        => routeCalls[1].path = <<"users", routeReq.userId, "sessions">>
     /\ (~Supplied(routeReq.userId) /\ Supplied(routeReq.userEmail))
        => routeCalls[1].path =
             <<"users", "email", routeReq.userEmail, "sessions">>
     /\ (~Supplied(routeReq.userId) /\ ~Supplied(routeReq.userEmail))
        => routeCalls[1].path = <<"recent">>

\* a list request with an owner id and an email was answered from the
\* owner-id lookup
C19_Witness ==
  /\ routeReq.op = "list"
  /\ routeReq.userId = "u1" /\ routeReq.userEmail = "e1"
  /\ routeCalls = <<[method |-> "GET", path |-> <<"users", "u1", "sessions">>,
                     query |-> <<"20", "0">>, body |-> <<>>]>>
  /\ routeStatus = 200

\* the backend has answered the request of the route handler
BackendAnswered == routePc = "done" /\ routeOutcome # "none"

\* C20 as stated: for every operation a 404 of the backend is answered 404
\* and every other failure of the backend 500.
C20_AsStated ==
  BackendAnswered
  => /\ routeOutcome = "notFound" => routeStatus = 404
     /\ routeOutcome \in {"status", "throw", "malformed"} => routeStatus = 500

\* C20 (amended): read-history, update and delete answer 404 when the
\* backend answers 404; list and create answer 500 to it; every other
\* failure of the backend, and a request body that cannot be read, is
\* answered 500, and a success 200.
C20_NotFoundProxied ==
  /\ BackendAnswered
     => /\ routeOutcome = "ok" => routeStatus = 200
        /\ routeOutcome = "notFound"
           => routeStatus = IF routeReq.op \in {"history", "update", "delete"}
                            THEN 404 ELSE 500
        /\ routeOutcome \in {"status", "throw", "malformed"}
           => routeStatus = 500
  /\ (routePc = "done" /\ routeOutcome = "none")
     => /\ routeReq.op \in {"create", "update"}
        /\ ~routeReq.parses
        /\ routeStatus = 500
        /\ routeCalls = <<>>

\* the backend answered 404 to a delete and the endpoint answered 404
C20_Witness ==
  /\ routeReq.op = "delete"
  /\ routeOutcome = "notFound"
  /\ routeStatus = 404


\* call i of sendMessage started without a current session and its
\* POST /api/conversations failed
HookCreationFailed(i) ==
  /\ hookLocal[i].started
  /\ ~Present(hookLocal[i].closure)
  /\ hookOutcome[i]["create"] \in {"status", "throw"}

\* call i sent the message to /api/chat/enhanced
SentToChat(i) ==
  \E k \in 1..Len(hookCalls) :
    /\ hookCalls[k].by = i
    /\ hookCalls[k].to = "chat"
    /\ hookCalls[k].message = hookLocal[i].message

\* the reply of call i is among the messages displayed
ReplyShown(i) ==
  \E k \in 1..Len(hookMessages) : hookMessages[k].id = <<"assistant", i>>

\* C11: a message sent through the hook with no current session whose
\* session creation fails is still sent to the chat endpoint, and a reply
\* is streamed into the messages displayed. sendMessage throws instead.
C11_AsStated ==
  \A i \in Sends : HookCreationFailed(i) => SentToChat(i) /\ ReplyShown(i)

\* what the hook does instead: no chat request, no reply, the error shown
C11_Witness ==
  \E i \in Sends :
    /\ HookCreationFailed(i)
    /\ hookPc[i] = "done"
    /\ ~SentToChat(i)
    /\ ~ReplyShown(i)
    /\ hookError = SendFailed
    /\ ~isLoading

\* ------------------------------------------------------- the property list
\* usePropertyData: the fetch made on mount and loadMore, in front of
\* GET /api/properties, which cuts the page out of the backend's list.

\* the largest backend followed
MaxProperties == 51

\* usePropertyData(25): the page size
InitialLimit == 25

\* the backend's list: n properties, in its order
BackendList(n) == [i \in 1..n |-> i]

\* data.slice(from, to)
slice(list, from, to) == SubSeq(list, from + 1, Min(to, Len(list)))

\* GET /api/properties?limit=&offset=: { properties, total }
PropertiesPage(n, limit, offset) ==
  [properties |-> slice(BackendList(n), offset, offset + limit),
   total |-> n]

\* the one record listed when the endpoint cannot be reached
MockProperties == <<0>>

\* fetchProperties(limit, offset) up to its fetch
FetchProperties(offset) ==
  /\ loading' = TRUE
  /\ propOffset' = offset
  /\ propPc' = "fetching"
  /\ UNCHANGED <<properties, hasMore, totalCount, propError, backendSize>>

\* the effect run on mount: fetchProperties(initialLimit)
Mount ==
  /\ propPc = "mount"
  /\ FetchProperties(0)
  /\ UNCHANGED <<server, route, hook, basic>>

\* loadMore: nothing when there is no more or a load is under way, else
\* fetchProperties(initialLimit, properties.length)
LoadMore ==
  /\ propPc # "mount"
  /\ IF ~hasMore \/ loading
     THEN UNCHANGED props
     ELSE FetchProperties(Len(properties))
  /\ UNCHANGED <<server, route, hook, basic>>

\* fetchProperties from the answer of the endpoint on: the page replaces the
\* list (offset 0) or is appended to it; a non-success status or a fetch that
\* throws falls back to the mock record; finally loading is false
PropertiesAnswered ==
  /\ propPc = "fetching"
  /\ \E o \in {"ok", "status", "throw"} :
       IF o = "ok"
       THEN LET data == PropertiesPage(backendSize, InitialLimit, propOffset)
            IN /\ properties' = IF propOffset = 0 THEN data.properties
                                ELSE properties \o data.properties
               /\ totalCount' = IF data.total # 0 THEN data.total
                                ELSE Len(data.properties)
               /\ hasMore' = (Len(data.properties) = InitialLimit)
       ELSE /\ properties' = MockProperties
            /\ totalCount' = Len(MockProperties)
            /\ hasMore' = FALSE
  /\ propError' = None
  /\ loading' = FALSE
  /\ propPc' = "idle"
  /\ UNCHANGED <<propOffset, backendSize, server, route, hook, basic>>

PropNext == Mount \/ LoadMore \/ PropertiesAnswered

\* the list mounted in front of a backend of 0..MaxProperties properties
PropStart ==
  /\ \E n \in 0..MaxProperties : PropInit(n)
  /\ ServerInit({0})
  /\ RouteInit
  /\ HookInit(None)
  /\ BasicInit

PropSpec == PropStart /\ [][PropNext]_vars

\* -------------------------------------------------- the basic chat handler
\* POST of app/api/chat/route.ts: the body is read and its last message taken
\* before the try block; getPropertyContext and streamText run inside it.

\* the keywords of the basic handler's getPropertyContext
basicKeywords ==
    << <<"p","r","o","p","e","r","t","y">>,
       <<"r","e","n","t">>,
       <<"s","q","u","a","r","e"," ","f","e","e","t">>,
       <<"s","f">>,
       <<"f","l","o","o","r">>,
       <<"s","u","i","t","e">>,
       <<"b","r","o","k","e","r">>,
       <<"a","s","s","o","c","i","a","t","e">>,
       <<"a","n","n","u","a","l"," ","r","e","n","t">>,
       <<"m","o","n","t","h","l","y"," ","r","e","n","t">> >>

\* propertyKeywords.some(k => query.toLowerCase().includes(k.toLowerCase()))
isBasicPropertyQuery(query) ==
  \E i \in 1..Len(basicKeywords) :
    includes(toLowerCase(query), toLowerCase(basicKeywords[i]))

\* lists of one message, of either role, with every content value
SingleMessageBodies ==
  [i \in 1..2 * Len(MessageValues) |->
     Body(TRUE, TRUE,
          <<Msg(IF i % 2 = 0 THEN "user" ELSE "assistant",
                MessageValues[(i + 1) \div 2])>>,
          Undefined)]

\* the request bodies of the basic handler: those of the enhanced one (an
\* object without messages, lists, an unreadable body) and the one-message
\* lists
BasicBodies == Bodies \o SingleMessageBodies

\* `const { messages } = await req.json()` and `messages[messages.length -
\* 1]` throw when the body is not JSON or has no messages
ReadThrows(body) == ~body.parses \/ ~body.isArray

\* lastMessage.content, undefined when the list is empty
LastContent(body) ==
  IF body.messages = <<>> THEN Undefined
  ELSE body.messages[Len(body.messages)].content

\* lastMessage.content of an undefined lastMessage, and query.toLowerCase()
\* of a content that is not a string, throw
ContextThrows(body) ==
  body.messages = <<>> \/ LastContent(body).type # "string"

\* POST up to getPropertyContext: the body is read before the try, so an
\* exception thrown there leaves the handler
BasicReceive ==
  /\ basicPc = "idle"
  /\ \E i \in 1..Len(BasicBodies) :
       LET body == BasicBodies[i] IN
       /\ basicReq' = body
       /\ IF ReadThrows(body)
          THEN /\ basicPc' = "done"
               /\ basicEnd' = "escaped"
          ELSE /\ basicPc' = "context"
               /\ UNCHANGED basicEnd
  /\ UNCHANGED <<basicContext, server, route, hook, props>>

\* getPropertyContext(lastMessage.content) up to its fetch
BasicContext ==
  /\ basicPc = "context"
  /\ IF ContextThrows(basicReq)
     THEN basicPc' = "done" /\ basicEnd' = "500"
     ELSE /\ basicPc' = IF isBasicPropertyQuery(LastContent(basicReq).chars)
                        THEN "dataset" ELSE "model"
          /\ UNCHANGED basicEnd
  /\ UNCHANGED <<basicReq, basicContext, server, route, hook, props>>

\* the fetch of the dataset: its first lines, or "" when it throws
BasicDataset ==
  /\ basicPc = "dataset"
  /\ \E o \in {"ok", "throw"} :
       basicContext' = IF o = "ok"
                       THEN <<"Property Dataset Sample:", "This dataset">>
                       ELSE <<>>
  /\ basicPc' = "model"
  /\ UNCHANGED <<basicReq, basicEnd, server, route, hook, props>>

\* streamText and the Response, or the catch
BasicModel ==
  /\ basicPc = "model"
  /\ \E o \in {"ok", "throw"} :
       basicEnd' = IF o = "ok" THEN "200" ELSE "500"
  /\ basicPc' = "done"
  /\ UNCHANGED <<basicReq, basicContext, server, route, hook, props>>

BasicNext == BasicReceive \/ BasicContext \/ BasicDataset \/ BasicModel

BasicSpec == InitWith({0}) /\ [][BasicNext]_vars

\* the step of the orchestrator that a call belongs to, numbered as the
\* state machine is written down: ResolveSession, FetchHistory,
\* AssembleContext, PersistUserMessage, StreamModel, PersistAssistantMessage
StatedStep(c) ==
  CASE c = "create" -> 1
    [] c = "history" -> 2
    [] c \in {"search", "market"} -> 3
    [] c = "appendUser" -> 4
    [] c = "model" -> 5
    [] c = "appendAsst" -> 6

\* the calls that may directly follow call c in one turn
MayFollow(c) ==
  CASE c = "create" -> {"history", "search", "model"}
    [] c = "history" -> {"appendUser"}
    [] c = "appendUser" -> {"search", "model"}
    [] c = "search" -> {"market", "model"}
    [] c = "market" -> {"model"}
    [] c = "model" -> {"appendAsst"}
    [] c = "appendAsst" -> {}

IndexOf(t, c) ==
  IF \E i \in 1..Len(calls[t]) : calls[t][i] = c
  THEN CHOOSE i \in 1..Len(calls[t]) : calls[t][i] = c
  ELSE 0

\* the model stream of turn t has not terminated
StreamOpen(t) ==
  pc[t] \in {"idle", "create", "history", "appendUser", "search", "market",
             "model", "streaming"}

\* C22: no assistant append is issued before the model stream of the turn
\* has terminated, the append carries the full text of the completed stream
\* on the session of the turn, and the user append of the turn was issued
\* before it.
C22_AssistantAppendAfterStream ==
  \A t \in Turns :
    /\ StreamOpen(t) => IndexOf(t, "appendAsst") = 0
    /\ IndexOf(t, "appendAsst") # 0 =>
         /\ outcome[t]["model"] = "ok"
         /\ payload[t][IndexOf(t, "appendAsst")].content = text[t]
         /\ payload[t][IndexOf(t, "appendAsst")].session = currentSessionId[t]
         /\ IndexOf(t, "appendUser") # 0
         /\ IndexOf(t, "appendUser") < IndexOf(t, "appendAsst")
         /\ IndexOf(t, "model") < IndexOf(t, "appendAsst")

\* an assistant append was issued, with a reply that differs from the text of
\* the user message
C22_Witness ==
  \E t \in Turns :
    /\ pc[t] = "done"
    /\ IndexOf(t, "appendAsst") # 0
    /\ text[t] # <<>> /\ text[t] # message[t]
    /\ outcome[t]["appendAsst"] = "ok"

\* context assembly of turn t is over and the model has been called
ModelCalled(t) == IndexOf(t, "model") # 0

OnlyOnSession(t, sid) ==
  \A i \in 1..Len(calls[t]) :
    calls[t][i] \in {"history", "appendUser", "appendAsst"}
    => payload[t][i].session = sid

\* C24: a turn whose request supplies a session id never issues a session
\* creation, addresses the history fetch and the appends to the supplied id,
\* and returns the stream with X-Session-Id equal to the supplied id, also
\* when the history fetch or the appends on that id fail.
C24_SuppliedSessionKept ==
  \A t \in Turns :
    (Started(t) /\ req[t].sessionId # None)
    => /\ IndexOf(t, "create") = 0
       /\ exists \ {ExistingId} = {}
       /\ OnlyOnSession(t, req[t].sessionId)
       /\ status[t] = 200 => header[t] = req[t].sessionId

\* an id the session store does not hold: the history fetch and both appends
\* failed and the stream was returned with that id in the header
C24_Witness ==
  \E t \in Turns :
    /\ pc[t] = "done"
    /\ req[t].sessionId = UnknownId
    /\ Failed(t, "history") /\ Failed(t, "appendUser")
    /\ Failed(t, "appendAsst")
    /\ status[t] = 200 /\ header[t] = UnknownId

\* the model call of turn t failed
ModelFailed(t) == outcome[t]["model"] = "throw"

\* the session of turn t holds the user message of turn t
UserMessageHeld(t) ==
  \E i \in 1..Len(store[currentSessionId[t]]) :
    LET m == store[currentSessionId[t]][i]
    IN m.sender = "user" /\ m.content = message[t] /\ m.turn = t

\* C25 as stated: when the model call fails in a turn that resolved a
\* session, the user message has been appended to that session.
C25_AsStated ==
  \A t \in Turns : (ModelFailed(t) /\ Resolved(t)) => UserMessageHeld(t)

\* C25 (amended): when the model call fails in a turn that resolved a
\* session, the turn ends with 500 and without X-Session-Id; the user append
\* was issued before the model call and, if it succeeded, the session holds
\* the user message; no assistant append is issued; a session created in the
\* turn is still held by the service.
C25_ModelFailureAfterUserAppend ==
  \A t \in Turns :
    (ModelFailed(t) /\ Resolved(t))
    => /\ pc[t] = "done" /\ status[t] = 500
       /\ header[t] = None
       /\ IndexOf(t, "appendUser") # 0
       /\ IndexOf(t, "appendUser") < IndexOf(t, "model")
       /\ IndexOf(t, "appendAsst") = 0
       /\ outcome[t]["appendUser"] = "ok" => UserMessageHeld(t)
       /\ outcome[t]["create"] = "ok" =>
            /\ currentSessionId[t] \in exists
            /\ currentSessionId[t] # ExistingId
            /\ title[currentSessionId[t]] = Title(message[t])

\* a session was created in the turn, the user message appended to it, and
\* the model call failed
C25_Witness ==
  \E t \in Turns :
    /\ ModelFailed(t)
    /\ outcome[t]["create"] = "ok"
    /\ outcome[t]["appendUser"] = "ok"
    /\ store[currentSessionId[t]] =
         <<Stored("user", message[t], UserMeta, t)>>
    /\ status[t] = 500

\* the pieces of text s that are among the pieces ps
Pieces(s, ps) == {i \in 1..Len(s) : s[i] \in ps}

\* getPropertyContext of turn t has returned after a market-summary call
MarketAnswered(t) ==
  IndexOf(t, "market") # 0 /\ pc[t] # "market"

\* C26: when the property search returned at least one result, a
\* non-success status of the market-summary call keeps the numbered record
\* lines and the closing instruction and leaves out only the MARKET OVERVIEW
\* block, whereas a thrown error throws the record lines away:
\* getPropertyContext returns the empty string.
C26_MarketFailureModesDiffer ==
  \A t \in Turns :
    MarketAnswered(t) =>
      /\ nResults[t] >= 1
      /\ outcome[t]["market"] = "status" =>
           /\ Len(propertyContext[t]) = nResults[t] + 2
           /\ propertyContext[t][1] = "RELEVANT PROPERTY DATA:"
           /\ SubSeq(propertyContext[t], 2, nResults[t] + 1)
                = SubSeq(RecordLine, 1, nResults[t])
           /\ propertyContext[t][nResults[t] + 2]
                = "Use this specific property data"
           /\ Pieces(propertyContext[t], {"MARKET OVERVIEW:"}) = {}
      /\ outcome[t]["market"] = "throw" =>
           /\ propertyContext[t] = <<>>
           /\ pc[t] = "done" => outcome[t]["model"] # "none"

\* three records found and the market summary answered with a non-success
\* status: the dynamic section is the heading, three lines, the instruction
C26_Witness ==
  \E t \in Turns :
    /\ MarketAnswered(t)
    /\ outcome[t]["market"] = "status"
    /\ nResults[t] = 3
    /\ Len(propertyContext[t]) = 5

\* three records found and the market summary threw: nothing is left
C26_WitnessThrown ==
  \E t \in Turns :
    /\ MarketAnswered(t)
    /\ outcome[t]["market"] = "throw"
    /\ nResults[t] = 3
    /\ propertyContext[t] = <<>>

\* call i of sendMessage is between its start and its end
Sending(i) == hookPc[i] \notin {"idle", "done"}

\* the chat request of call i is in flight or its reply is being read
ChatInFlight(i) == hookPc[i] \in {"sending", "reading"}

\* a call of sendMessage that returns at once: it sends nothing and sets
\* nothing
ReturnsAtOnce(i) ==
  /\ hookPc'[i] = "done"
  /\ UNCHANGED <<hookLocal, hookSessionId, hookMessages, isLoading,
                 hookError, hookCalls, hookOutcome>>

\* at most one call of sendMessage is under way, and isLoading is true
\* exactly while one is
OneSendAtATime ==
  /\ Cardinality({i \in Sends : Sending(i)}) <= 1
  /\ Cardinality({i \in Sends : ChatInFlight(i)}) <= 1
  /\ isLoading <=> \E i \in Sends : Sending(i)
  /\ \A i \in Sends :
       (hookPc[i] = "done" /\ hookLocal[i].started /\ ~isLoading)
       => \A j \in Sends : ~Sending(j)

\* a call made while isLoading is true, or with a blank message, returns at
\* once
GuardedStart ==
  \A i \in Sends :
    (hookPc[i] = "idle" /\ hookPc'[i] # "idle")
    => /\ isLoading => ReturnsAtOnce(i)
       /\ hookPc'[i] = "done" => ReturnsAtOnce(i)
       /\ hookPc'[i] # "done" =>
            /\ trim(hookLocal'[i].message) # <<>>
            /\ isLoading'

\* the end of a call that started sets isLoading to false, however it ends
EndClearsLoading ==
  \A i \in Sends :
    (Sending(i) /\ hookPc'[i] = "done") => ~isLoading'

\* C27: at most one chat request is in flight per hook; a sendMessage called
\* while isLoading is true or with a blank message issues no request and
\* changes no state; every sendMessage that started sets isLoading back to
\* false when it ends: after the reply, a failed session creation, a failed
\* chat request or a stream error.
C27_OneRequestInFlight ==
  /\ []OneSendAtATime
  /\ [][GuardedStart /\ EndClearsLoading]_vars

\* a second sendMessage was turned away while the first was reading its
\* reply
C27_Witness ==
  \E i, j \in Sends :
    /\ hookPc[i] = "reading" /\ isLoading
    /\ hookPc[j] = "done" /\ ~hookLocal[j].started
    /\ Len(hookCalls) = 1

\* both calls started, one after the other, the first ended on a stream
\* that broke off
C27_WitnessBoth ==
  \E i, j \in Sends :
    /\ i # j
    /\ hookPc[i] = "done" /\ hookLocal[i].started
    /\ hookPc[j] = "done" /\ hookLocal[j].started
    /\ hookOutcome[i]["chat"] = "ok" /\ hookOutcome[j]["chat"] = "status"
    /\ ~isLoading

\* no call of switchToSession is pending, and one has been made
SwitchesSettled ==
  /\ \A k \in Switches : hookPc[k] # "loading"
  /\ \E k \in Switches : hookPc[k] = "done"

\* C28: once every pending switchToSession has completed, the messages
\* displayed are the history of the session named by currentSessionId,
\* whatever the order in which the histories arrived and also when a
\* history load was answered with a non-success status.
C28_AsStated ==
  SwitchesSettled => hookMessages = HookHistory(hookSessionId)

\* two sessions picked one after the other, both histories loaded, the
\* history of the first arriving last: the session named is the second,
\* the messages shown are those of the first
C28_Witness ==
  \E j, k \in Switches :
    /\ hookPc[j] = "done" /\ hookPc[k] = "done"
    /\ hookOutcome[j]["history"] = "ok" /\ hookOutcome[k]["history"] = "ok"
    /\ hookLocal[j].sessionId # hookLocal[k].sessionId
    /\ hookSessionId = hookLocal[k].sessionId
    /\ hookMessages = HookHistory(hookLocal[j].sessionId)

\* one session picked, its history answered with a non-success status: the
\* session is named and the messages shown are still those of before
C28_WitnessStatus ==
  \E k \in Switches :
    /\ \A j \in Switches : j # k => hookPc[j] = "idle"
    /\ hookPc[k] = "done" /\ hookOutcome[k]["history"] = "status"
    /\ hookSessionId = hookLocal[k].sessionId
    /\ hookMessages = <<>>
    /\ hookError = None

\* the endpoint could not be reached and the mock record is listed
FellBack == properties = MockProperties

\* the list is the first records of the backend's list, in its order (and so
\* without duplicates)
ListIsPrefix ==
  /\ Len(properties) <= backendSize
  /\ properties = SubSeq(BackendList(backendSize), 1, Len(properties))

\* loadMore starts a fetch only when hasMore is true and no load is under
\* way, and then at the offset of the number of records listed
LoadMoreGuarded ==
  (propPc = "idle" /\ propPc' = "fetching")
  => /\ hasMore /\ ~loading
     /\ propOffset' = Len(properties)

\* no fetch is under way and every record of the backend is listed
AllLoaded ==
  propPc = "idle" /\ ~FellBack /\ Len(properties) = backendSize

\* C29: loadMore does nothing when hasMore is false or a load is under way,
\* otherwise it fetches the page at the offset of the number of records
\* listed and appends it; after successful loads the list is a duplicate-free
\* prefix of the backend's list, and hasMore is false once all N records are
\* listed.
C29_AsStated ==
  /\ [](~FellBack => ListIsPrefix)
  /\ [](AllLoaded => ~hasMore)
  /\ [][LoadMoreGuarded]_vars

\* what holds of the code: the guard of loadMore and the prefix
C29_PrefixOnly ==
  /\ [](~FellBack => ListIsPrefix)
  /\ [][LoadMoreGuarded]_vars
  /\ []((propPc = "idle" /\ ~FellBack /\ ~hasMore) => AllLoaded)

\* a backend of two full pages: all 50 records are listed and hasMore is
\* still true
C29_Witness ==
  /\ backendSize = 2 * InitialLimit
  /\ AllLoaded
  /\ hasMore

\* a backend of 51 records, all listed after two calls of loadMore
C29_WitnessReached ==
  /\ backendSize = 2 * InitialLimit + 1
  /\ AllLoaded
  /\ ~hasMore
  /\ totalCount = backendSize

\* C30: for every request body the basic chat POST handler ends by
\* returning a response, the streamed reply or a 500, and lets no exception
\* escape: also for a body without a messages list and for an empty list.
C30_AsStated ==
  basicPc = "done" => basicEnd \in {"200", "500"}

\* an object without a messages list: the exception left the handler
C30_Witness ==
  /\ basicPc = "done"
  /\ basicReq.parses /\ ~basicReq.isArray
  /\ basicEnd = "escaped"

\* an empty messages list: the exception is thrown inside the try and
\* answered 500
C30_WitnessEmptyList ==
  /\ basicPc = "done"
  /\ basicReq.parses /\ basicReq.isArray /\ basicReq.messages = <<>>
  /\ basicEnd = "500"

====
